---- MODULE Spec2Model ----
(***************************************************************************)
(* Workspace synchronisation core of chartdb: the express/SQLite server    *)
(* (src/server/index.js), its socket.io rooms, the fetch facade            *)
(* (src/unnamed/part_000) and the in-memory storage provider               *)
(* (src/Dockerfile, lines 47-678).                                         *)
(*                                                                         *)
(* JavaScript values are modelled as follows.  Strings are TLA+ strings,   *)
(* "" being the falsy empty string; an absent property is Undefined.       *)
(* Objects are records carrying a "kind" field.  A timestamp string is a   *)
(* record of its calendar parts, so that the two formats the server        *)
(* writes can be compared both as strings and as instants.                 *)
(***************************************************************************)
EXTENDS Integers, Sequences, FiniteSets, TLC

(***************************************************************************)
(* Bounds of the model.                                                    *)
(***************************************************************************)
\* The wall clock runs from tick 0 to tick MaxClock (under Spec) or to tick
\* MaxClockRealtime (under SpecRealtime).
MaxClock == 4
MaxClockRealtime == 1
\* Events emitted and not yet delivered, over all connections.
MaxQueue == 3

\* Scale of the clock: ticks in a second, seconds in a day.
TicksPerSec == 2
SecsPerDay == 2
TicksPerDay == TicksPerSec * SecsPerDay

(***************************************************************************)
(* Inputs.                                                                 *)
(***************************************************************************)
Clients == {"A", "B"}
WsIds == {"w1", "w2"}
TableIds == {"X", "Y"}
Undefined == "undefined"
Null == "null"
UndefinedDoc == [kind |-> "undefined"]
NullDoc == [kind |-> "null"]
FalseDoc == [kind |-> "false"]
EmptyObject == [kind |-> "object"]

VARIABLES
    users,        \* table users: sequence of rows, the row's id is its index
    session,      \* per client: the userId held in its session cookie, 0 = none
    workspaces,   \* table workspaces: id -> row
    members,      \* table workspace_members: set of rows
    now,          \* the wall clock, in ticks
    rooms,        \* socket.io rooms: workspace id -> set of joined connections
    chan,         \* per connection: events emitted to it and not yet delivered
    resp,         \* the request or socket message handled last, with its reply
    cache,        \* per client: diagramsRef, workspace id -> Diagram
    view,         \* per client: the diagramId its loader hook shows, "" = none
    net           \* HTTP requests and responses in flight

clientVars == <<cache, view, net>>
vars == <<users, session, workspaces, members, now, rooms, chan, resp,
          cache, view, net>>

(***************************************************************************)
(* Timestamps.                                                             *)
(***************************************************************************)
\* SQLite datetime('now'): 'YYYY-MM-DD HH:MM:SS', UTC, whole seconds.
SqlDatetime(t) ==
    [day |-> t \div TicksPerDay, sep |-> " ",
     sec |-> (t % TicksPerDay) \div TicksPerSec, frac |-> 0]

\* Date.prototype.toISOString: 'YYYY-MM-DDTHH:MM:SS.sssZ'.
ToISOString(t) ==
    [day |-> t \div TicksPerDay, sep |-> "T",
     sec |-> (t % TicksPerDay) \div TicksPerSec, frac |-> t % TicksPerSec]

SepRank(s) == IF s = " " THEN 0 ELSE 1

\* Order of two timestamp strings compared as text (SQLite TEXT collation).
TextLeq(a, b) ==
    \/ a.day < b.day
    \/ a.day = b.day /\ SepRank(a.sep) < SepRank(b.sep)
    \/ a.day = b.day /\ a.sep = b.sep /\ a.sec < b.sec
    \/ a.day = b.day /\ a.sep = b.sep /\ a.sec = b.sec /\ a.frac <= b.frac

\* The instant a timestamp string denotes, in ticks.
Instant(a) == (a.day * SecsPerDay + a.sec) * TicksPerSec + a.frac

(***************************************************************************)
(* JavaScript and JSON helpers.                                            *)
(***************************************************************************)
\* !v for the request fields the handlers test.
Falsy(v) == v = "" \/ v = Undefined \/ v = Null

\* diagram ?? ...: undefined and null are nullish.
NullishDoc(d) == d.kind \in {"undefined", "null"}

\* !diagram: undefined, null and false are falsy, every object is truthy.
FalsyDoc(d) == d.kind \in {"undefined", "null", "false"}

\* new Date(v): of a string the instant it denotes, of a Date a copy, of
\* null the epoch, of undefined the Invalid Date (time -1 here).
NewDate(v) ==
    CASE v.kind = "string" -> [kind |-> "Date", time |-> Instant(v.value)]
      [] v.kind = "Date" -> v
      [] v.kind = "null" -> [kind |-> "Date", time |-> 0]
      [] OTHER -> [kind |-> "Date", time |-> -1]

\* What JSON.stringify writes for a date-like field: a Date through
\* toJSON (null for the Invalid Date), a string as it is.
DateToJson(v) ==
    CASE v.kind = "Date" /\ v.time >= 0 ->
            [kind |-> "string", value |-> ToISOString(v.time)]
      [] v.kind = "Date" -> [kind |-> "null"]
      [] OTHER -> v

\* JSON.parse(JSON.stringify(d)): the JSON value of a JavaScript value.
ToJson(d) ==
    IF d.kind = "diagram"
    THEN [d EXCEPT !.createdAt = DateToJson(@), !.updatedAt = DateToJson(@)]
    ELSE d

\* JSON.stringify: the text, represented by the JSON value it denotes.
JsonStringify(d) == [text |-> ToJson(d)]

\* A faulty variant: the text is returned as a string, not parsed.
ReturnUnparsed(s) == [kind |-> "string", value |-> s]

\* JSON.parse of a text written by JsonStringify.
JsonParse(s) == s.text

\* A Diagram object of the client.
Diagram(id, name, tables, created, updated) ==
    [kind |-> "diagram", id |-> id, name |-> name, tables |-> tables,
     createdAt |-> [kind |-> "Date", time |-> created],
     updatedAt |-> [kind |-> "Date", time |-> updated]]

(***************************************************************************)
(* Password hashing (bcryptjs).                                            *)
(***************************************************************************)
HashSync(password) == [alg |-> "bcrypt", of |-> password]
CompareSync(password, hash) == hash.of = password

(***************************************************************************)
(* Storage queries.                                                        *)
(***************************************************************************)
NoResp == [op |-> "none"]

\* SELECT * FROM users WHERE email = ?  (0: no such row)
UserByEmail(email) ==
    IF \E i \in 1..Len(users) : users[i].email = email
    THEN CHOOSE i \in 1..Len(users) : users[i].email = email
    ELSE 0

\* A faulty variant: requireAuth lets every request through.
AuthenticatedAlways(uid) == TRUE

\* requireAuth: req.session && req.session.userId
Authenticated(uid) == uid # 0

\* A row of workspace_members for (uid, id) in the table M.
HasMembership(M, uid, id) ==
    \E m \in M : m.user_id = uid /\ m.workspace_id = id

\* A faulty variant: the SELECT without the JOIN on workspace_members.
SelectWorkspaceNoJoin(W, M, uid, id) ==
    IF id \in DOMAIN W THEN {W[id]} ELSE {}

\* SELECT ... FROM workspaces w JOIN workspace_members m
\*   ON m.workspace_id = w.id WHERE w.id = ? AND m.user_id = ?
\* over the tables W and M: the set of rows selected (none or one).
SelectWorkspaceFor(W, M, uid, id) ==
    IF id \in DOMAIN W /\ HasMembership(M, uid, id) THEN {W[id]} ELSE {}

\* The ids GET /api/workspaces selects for a user.
SelectIdsFor(W, M, uid) == {id \in DOMAIN W : HasMembership(M, uid, id)}

\* A faulty variant: the name is set to whatever the body holds.
CoalesceNameOverwrite(name, old) == name

\* COALESCE(?, name) with the parameter name ?? null.
CoalesceName(name, old) ==
    IF name = Undefined \/ name = Null THEN old ELSE name

\* A faulty variant, a store that merges: the tables stored before are kept
\* and the tables of the body which are not among them are appended.
RECURSIVE MergeTables(_, _)
MergeTables(kept, more) ==
    IF more = <<>> THEN kept
    ELSE MergeTables(IF \E i \in 1..Len(kept) : kept[i] = Head(more)
                     THEN kept ELSE Append(kept, Head(more)),
                     Tail(more))

CoalesceDiagramMerging(diagram, old) ==
    IF FalsyDoc(diagram) THEN old
    ELSE IF diagram.kind = "diagram" /\ JsonParse(old).kind = "diagram"
    THEN JsonStringify([diagram EXCEPT !.tables =
                           MergeTables(JsonParse(old).tables, @)])
    ELSE JsonStringify(diagram)

\* COALESCE(?, diagram_json) with the parameter
\* diagram ? JSON.stringify(diagram) : null.
CoalesceDiagram(diagram, old) ==
    IF FalsyDoc(diagram) THEN old ELSE JsonStringify(diagram)

\* diagram ?? {}
OrEmptyObject(diagram) ==
    IF NullishDoc(diagram) THEN EmptyObject ELSE diagram

(***************************************************************************)
(* Replies of the workspace routes as functions of the tables W, M, the    *)
(* session's user id and the request.                                      *)
(***************************************************************************)
Reply(op, c, uid, id, status, body) ==
    [op |-> op, c |-> c, uid |-> uid, id |-> id, status |-> status,
     body |-> body]

Unauthorized == [error |-> "Unauthorized"]
NotFound == [error |-> "Not found"]

\* A faulty variant: the session route forgets the cookie.
SessionReplyNone(U, c, uid) ==
    Reply("session", c, uid, "", 200, [user |-> NullDoc])

\* GET /api/session over the users table U: the row of the cookie's user
\* id, or null without a session.
SessionReply(U, c, uid) ==
    IF uid # 0
    THEN Reply("session", c, uid, "", 200,
               [user |-> [id |-> uid, email |-> U[uid].email]])
    ELSE Reply("session", c, uid, "", 200, [user |-> NullDoc])

\* A faulty variant: an unknown email is told apart.
UnknownEmailBodyTelling == [error |-> "No such user"]

\* The bodies of login's two 401 replies: no row for the email, and a
\* password that does not match the row's hash.
UnknownEmailBody == [error |-> "Invalid credentials"]
WrongPasswordBody == [error |-> "Invalid credentials"]

\* GET /api/workspaces/:id
GetReply(W, M, c, uid, id) ==
    IF ~Authenticated(uid) THEN Reply("get", c, uid, id, 401, Unauthorized)
    ELSE IF SelectWorkspaceFor(W, M, uid, id) = {}
    THEN Reply("get", c, uid, id, 404, NotFound)
    ELSE LET w == CHOOSE r \in SelectWorkspaceFor(W, M, uid, id) : TRUE
         IN  Reply("get", c, uid, id, 200,
                   [id |-> id, name |-> w.name,
                    diagram |-> JsonParse(w.diagram_json),
                    updatedAt |-> w.updated_at])

\* The results of SELECT w.id, w.name, w.updated_at ... ORDER BY
\* w.updated_at DESC: the selected rows in every order that descends by
\* the text of updated_at (rows with the same text come in any order).
ListRows(W, M, uid) ==
    LET ids == SelectIdsFor(W, M, uid)
        n == Cardinality(ids)
        orders == {f \in [1..n -> ids] :
                     /\ \A i, j \in 1..n : i # j => f[i] # f[j]
                     /\ \A i, j \in 1..n :
                           i < j => TextLeq(W[f[j]].updated_at,
                                            W[f[i]].updated_at)}
    IN  {[i \in 1..n |-> [id |-> f[i], name |-> W[f[i]].name,
                          updated_at |-> W[f[i]].updated_at]] :
            f \in orders}

\* GET /api/workspaces: the replies the handler can give.
ListReplies(W, M, c, uid) ==
    IF ~Authenticated(uid)
    THEN {Reply("list", c, uid, "", 401, Unauthorized)}
    ELSE {Reply("list", c, uid, "", 200, rows) : rows \in ListRows(W, M, uid)}

\* A faulty variant: INSERT OR REPLACE, which never violates the primary key.
InsertOrReplace(W, id) == FALSE

\* The INSERT INTO workspaces of POST /api/workspaces throws
\* "UNIQUE constraint failed: workspaces.id".
InsertViolatesUnique(W, id) == id \in DOMAIN W

\* POST /api/workspaces; fault: the INSERT INTO workspace_members throws a
\* storage error.
CreateReply(W, c, uid, id, name, fault) ==
    IF ~Authenticated(uid) THEN Reply("create", c, uid, id, 401, Unauthorized)
    ELSE IF Falsy(id) \/ Falsy(name)
    THEN Reply("create", c, uid, id, 400, [error |-> "id and name required"])
    ELSE IF InsertViolatesUnique(W, id)
    THEN Reply("create", c, uid, id, 409,
               [error |-> "Workspace already exists"])
    ELSE IF fault
    THEN Reply("create", c, uid, id, 500,
               [error |-> "Failed to create workspace"])
    ELSE Reply("create", c, uid, id, 200, [id |-> id, name |-> name])

\* A faulty variant: the stamp is taken from the diagram the caller sends.
PutStampFromBody(t, diagram) ==
    IF diagram.kind = "diagram" THEN diagram.updatedAt.value
    ELSE ToISOString(t)

\* const now = new Date().toISOString() of PUT /api/workspaces/:id, t the
\* server's clock; the request body is not consulted.
PutStamp(t, diagram) == ToISOString(t)

\* A faulty variant: the update looks for the row, not for the membership.
PutReplyWithoutMembership(W, M, c, uid, id, diagram, t) ==
    IF ~Authenticated(uid) THEN Reply("put", c, uid, id, 401, Unauthorized)
    ELSE IF id \notin DOMAIN W
    THEN Reply("put", c, uid, id, 404, NotFound)
    ELSE Reply("put", c, uid, id, 200,
               [ok |-> TRUE, updatedAt |-> PutStamp(t, diagram)])

\* PUT /api/workspaces/:id
PutReply(W, M, c, uid, id, diagram, t) ==
    IF ~Authenticated(uid) THEN Reply("put", c, uid, id, 401, Unauthorized)
    ELSE IF SelectWorkspaceFor(W, M, uid, id) = {}
    THEN Reply("put", c, uid, id, 404, NotFound)
    ELSE Reply("put", c, uid, id, 200,
               [ok |-> TRUE, updatedAt |-> PutStamp(t, diagram)])

(***************************************************************************)
(* socket.io rooms.                                                        *)
(***************************************************************************)
\* A faulty variant: io.to(id), a room name no socket ever joins.
EmitToBareId(id) == {}

\* io.to(`ws:${id}`).emit: every socket joined to the room.
EmitTargets(id) == rooms[id]

\* A faulty variant: io.to(room).emit, which reaches the sender too.
RelayToWholeRoom(c, id) == rooms[id]

\* socket.to(`ws:${id}`).emit: every socket of the room but the sender.
RelayTargets(c, id) == rooms[id] \ {c}

\* A faulty variant: the relay re-emits the event under the name it came with.
RelayUnderSameName == "workspace:update"

\* The event name of a relayed patch.
RelayEventName == "workspace:patch"

Enqueue(targets, ev) ==
    [k \in Clients |-> IF k \in targets THEN Append(chan[k], ev) ELSE chan[k]]

\* Bound of the model: the events in flight stay within MaxQueue.
RECURSIVE Queued(_)
Queued(S) ==
    IF S = {} THEN 0
    ELSE LET k == CHOOSE x \in S : TRUE IN Len(chan[k]) + Queued(S \ {k})

HasRoomFor(targets) == Queued(Clients) + Cardinality(targets) <= MaxQueue

\* A faulty variant: the payload announces the update without the document.
UpdateEventWithoutDiagram(id, name, diagram, stamp) ==
    [type |-> "workspace:update", id |-> id, name |-> name,
     diagram |-> UndefinedDoc, updatedAt |-> stamp]

\* A faulty variant: an absent name is announced as the empty name.
UpdateEventDefaultName(id, name, diagram, stamp) ==
    [type |-> "workspace:update", id |-> id,
     name |-> IF name = Undefined THEN "" ELSE name,
     diagram |-> diagram, updatedAt |-> stamp]

\* The payload of io.to(...).emit('workspace:update', ...).
UpdateEvent(id, name, diagram, stamp) ==
    [type |-> "workspace:update", id |-> id, name |-> name,
     diagram |-> diagram, updatedAt |-> stamp]

(***************************************************************************)
(* Initial state: an empty database, no session, no connection.            *)
(***************************************************************************)
Init ==
    /\ users = <<>>
    /\ session = [c \in Clients |-> 0]
    /\ workspaces = <<>>
    /\ members = {}
    /\ now = 0
    /\ rooms = [id \in WsIds |-> {}]
    /\ chan = [c \in Clients |-> <<>>]
    /\ resp = NoResp
    /\ cache = [c \in Clients |-> <<>>]
    /\ view = [c \in Clients |-> ""]
    /\ net = {}

(***************************************************************************)
(* The environment: time passes.                                           *)
(***************************************************************************)
Tick(limit) ==
    /\ now < limit
    /\ now' = now + 1
    /\ resp' = NoResp
    /\ UNCHANGED <<users, session, workspaces, members, rooms, chan>>
    /\ UNCHANGED clientVars

(***************************************************************************)
(* Auth routes.                                                            *)
(***************************************************************************)
\* POST /api/auth/signup
Signup(c, email, password) ==
    /\ IF Falsy(email) \/ Falsy(password)
       THEN /\ resp' = Reply("signup", c, session[c], "", 400,
                             [error |-> "Email and password required"])
            /\ UNCHANGED <<users, session>>
       ELSE IF UserByEmail(email) # 0
       THEN /\ resp' = Reply("signup", c, session[c], "", 409,
                             [error |-> "Email already exists"])
            /\ UNCHANGED <<users, session>>
       ELSE /\ users' = Append(users, [email |-> email,
                                       password_hash |-> HashSync(password)])
            /\ session' = [session EXCEPT ![c] = Len(users) + 1]
            /\ resp' = Reply("signup", c, session[c], "", 200,
                             [id |-> Len(users) + 1, email |-> email])
    /\ UNCHANGED <<workspaces, members, now, rooms, chan>>
    /\ UNCHANGED clientVars

\* POST /api/auth/login
Login(c, email, password) ==
    /\ IF Falsy(email) \/ Falsy(password)
       THEN /\ resp' = Reply("login", c, session[c], "", 400,
                             [error |-> "Email and password required"])
            /\ UNCHANGED session
       ELSE IF UserByEmail(email) = 0
       THEN /\ resp' = Reply("login", c, session[c], "", 401,
                             UnknownEmailBody)
            /\ UNCHANGED session
       ELSE IF ~CompareSync(password, users[UserByEmail(email)].password_hash)
       THEN /\ resp' = Reply("login", c, session[c], "", 401,
                             WrongPasswordBody)
            /\ UNCHANGED session
       ELSE /\ session' = [session EXCEPT ![c] = UserByEmail(email)]
            /\ resp' = Reply("login", c, session[c], "", 200,
                             [id |-> UserByEmail(email), email |-> email])
    /\ UNCHANGED <<users, workspaces, members, now, rooms, chan>>
    /\ UNCHANGED clientVars

\* POST /api/auth/logout
Logout(c) ==
    /\ session' = [session EXCEPT ![c] = 0]
    /\ resp' = Reply("logout", c, session[c], "", 200, [ok |-> TRUE])
    /\ UNCHANGED <<users, workspaces, members, now, rooms, chan>>
    /\ UNCHANGED clientVars

\* GET /api/session
Session(c) ==
    /\ resp' = SessionReply(users, c, session[c])
    /\ UNCHANGED <<users, session, workspaces, members, now, rooms, chan>>
    /\ UNCHANGED clientVars

(***************************************************************************)
(* Workspace routes: the handler's effect for a request carrying the       *)
(* session cookie uid.                                                     *)
(***************************************************************************)
\* The row INSERT INTO workspaces writes; updated_at DEFAULT datetime('now').
\* (created_at is written and never read: it is left out.)
NewWorkspaceRow(uid, name, diagram, t) ==
    [name |-> name, owner_id |-> uid,
     diagram_json |-> JsonStringify(OrEmptyObject(diagram)),
     updated_at |-> SqlDatetime(t)]

\* A faulty variant: every registered user becomes a member.
HandleCreateSharing(c, uid, id, name, diagram, fault) ==
    LET r == CreateReply(workspaces, c, uid, id, name, fault) IN
    /\ resp' = r
    /\ workspaces' =
          IF r.status \in {200, 500}
          THEN workspaces @@ (id :> NewWorkspaceRow(uid, name, diagram, now))
          ELSE workspaces
    /\ members' =
          IF r.status = 200
          THEN members \cup {[user_id |-> u, workspace_id |-> id,
                              role |-> IF u = uid THEN "owner"
                                       ELSE "editor"] :
                                 u \in 1..Len(users)}
          ELSE members
    /\ UNCHANGED chan

\* POST /api/workspaces
HandleCreate(c, uid, id, name, diagram, fault) ==
    LET r == CreateReply(workspaces, c, uid, id, name, fault) IN
    /\ resp' = r
    /\ workspaces' =
          IF r.status \in {200, 500}
          THEN workspaces @@ (id :> NewWorkspaceRow(uid, name, diagram, now))
          ELSE workspaces
    /\ members' =
          IF r.status = 200
          THEN members \cup {[user_id |-> uid, workspace_id |-> id,
                              role |-> "owner"]}
          ELSE members
    /\ UNCHANGED chan

\* GET /api/workspaces/:id
HandleGet(c, uid, id) ==
    /\ resp' = GetReply(workspaces, members, c, uid, id)
    /\ UNCHANGED <<workspaces, members, chan>>

\* GET /api/workspaces
HandleList(c, uid) ==
    /\ resp' \in ListReplies(workspaces, members, c, uid)
    /\ UNCHANGED <<workspaces, members, chan>>

\* The row UPDATE workspaces SET ... WHERE id = ? leaves.
UpdatedRow(row, name, diagram, stamp) ==
    [row EXCEPT !.name = CoalesceName(name, @),
                !.diagram_json = CoalesceDiagram(diagram, @),
                !.updated_at = stamp]

\* PUT /api/workspaces/:id
HandlePut(c, uid, id, name, diagram) ==
    LET r == PutReply(workspaces, members, c, uid, id, diagram, now) IN
    /\ resp' = r
    /\ IF r.status = 200
       THEN /\ HasRoomFor(EmitTargets(id))
            /\ workspaces' = [workspaces EXCEPT ![id] =
                  UpdatedRow(@, name, diagram, r.body.updatedAt)]
            /\ chan' = Enqueue(EmitTargets(id),
                  UpdateEvent(id, name, diagram, r.body.updatedAt))
       ELSE UNCHANGED <<workspaces, chan>>
    /\ UNCHANGED members

\* A request sent and answered in one step.
Create(c, id, name, diagram, fault) ==
    /\ HandleCreate(c, session[c], id, name, diagram, fault)
    /\ UNCHANGED <<users, session, now, rooms>>
    /\ UNCHANGED clientVars

Get(c, id) ==
    /\ HandleGet(c, session[c], id)
    /\ UNCHANGED <<users, session, now, rooms>>
    /\ UNCHANGED clientVars

List(c) ==
    /\ HandleList(c, session[c])
    /\ UNCHANGED <<users, session, now, rooms>>
    /\ UNCHANGED clientVars

Put(c, id, name, diagram) ==
    /\ HandlePut(c, session[c], id, name, diagram)
    /\ UNCHANGED <<users, session, now, rooms>>
    /\ UNCHANGED clientVars

(***************************************************************************)
(* Socket handlers.                                                        *)
(***************************************************************************)
\* A faulty variant: a join replays the last update of the workspace.
JoinWithReplay(c, id) ==
    /\ rooms' = [rooms EXCEPT ![id] = @ \cup {c}]
    /\ chan' = IF id \in DOMAIN workspaces /\ HasRoomFor({c})
               THEN Enqueue({c}, UpdateEvent(id, workspaces[id].name,
                                   JsonParse(workspaces[id].diagram_json),
                                   workspaces[id].updated_at))
               ELSE chan
    /\ resp' = [op |-> "join", c |-> c, id |-> id]
    /\ UNCHANGED <<users, session, workspaces, members, now>>
    /\ UNCHANGED clientVars

\* socket.on('workspace:join')
Join(c, id) ==
    /\ rooms' = [rooms EXCEPT ![id] = @ \cup {c}]
    /\ resp' = [op |-> "join", c |-> c, id |-> id]
    /\ UNCHANGED <<users, session, workspaces, members, now, chan>>
    /\ UNCHANGED clientVars

\* socket.on('workspace:leave')
Leave(c, id) ==
    /\ rooms' = [rooms EXCEPT ![id] = @ \ {c}]
    /\ resp' = [op |-> "leave", c |-> c, id |-> id]
    /\ UNCHANGED <<users, session, workspaces, members, now, chan>>
    /\ UNCHANGED clientVars

\* socket.on('workspace:update', ({ id, patch }) => ...)
Relay(c, id, patch) ==
    /\ HasRoomFor(RelayTargets(c, id))
    /\ chan' = Enqueue(RelayTargets(c, id),
                       [type |-> RelayEventName, id |-> id, patch |-> patch])
    /\ resp' = [op |-> "relay", c |-> c, id |-> id, patch |-> patch]
    /\ UNCHANGED <<users, session, workspaces, members, now, rooms>>
    /\ UNCHANGED clientVars

\* The connection closes: it leaves every room, its queued events are lost.
Disconnect(c) ==
    /\ rooms' = [id \in WsIds |-> rooms[id] \ {c}]
    /\ chan' = [chan EXCEPT ![c] = <<>>]
    /\ resp' = NoResp
    /\ UNCHANGED <<users, session, workspaces, members, now>>
    /\ UNCHANGED clientVars

\* The head event of a connection reaches its socket.
Drain(c) ==
    /\ chan[c] # <<>>
    /\ chan' = [chan EXCEPT ![c] = Tail(@)]
    /\ resp' = NoResp
    /\ UNCHANGED <<users, session, workspaces, members, now, rooms>>
    /\ UNCHANGED clientVars

(***************************************************************************)
(* The client: the fetch facade, the storage provider and the loader hook. *)
(***************************************************************************)
\* normalizeDiagramDates: { ...d, createdAt: new Date(d.createdAt),
\* updatedAt: new Date(d.updatedAt) }
NormalizeDiagramDates(d) ==
    IF d.kind = "diagram"
    THEN [d EXCEPT !.createdAt = NewDate(@), !.updatedAt = NewDate(@)]
    ELSE [kind |-> "object", createdAt |-> NewDate(UndefinedDoc),
          updatedAt |-> NewDate(UndefinedDoc)]

\* A faulty variant: the fetched diagram is not kept.
CacheKept(c, id, d) == cache

\* diagramsRef.current.set(id, d)
CacheSet(c, id, d) ==
    [cache EXCEPT ![c] = [i \in DOMAIN @ \cup {id} |->
                             IF i = id THEN d ELSE @[i]]]

\* The requests and responses of client c in flight.
Pending(c) == {m \in net : m.c = c}

\* api.getWorkspace(id): the request, carrying the session cookie; k is
\* what the caller does with the response.
GetRequest(c, id, k) ==
    [kind |-> "req", c |-> c, uid |-> session[c], op |-> "get", id |-> id,
     name |-> Undefined, diagram |-> UndefinedDoc, k |-> k]

\* api.updateWorkspace(id, { name: d.name, diagram: d }) of persist: the
\* body is JSON.stringify'ed when the request is made.
PersistRequest(c, id, d, k) ==
    [kind |-> "req", c |-> c, uid |-> session[c], op |-> "put", id |-> id,
     name |-> d.name, diagram |-> ToJson(d), k |-> k]

\* addTable once requireDiagram has returned d: d.tables gets the table,
\* the cache gets { ...d, updatedAt: new Date() }, persist sends the cached
\* diagram.  (k records the table and the tables d had; inFlight is what
\* else is on the wire.)
AddTableTo(c, id, d, table, inFlight) ==
    LET d1 == [d EXCEPT !.tables = Append(@, table),
                        !.updatedAt = [kind |-> "Date", time |-> now]]
    IN  /\ cache' = CacheSet(c, id, d1)
        /\ net' = inFlight \cup
              {PersistRequest(c, id, d1,
                  [op |-> "persist", table |-> table, base |-> d.tables])}

\* t.id of a table: X2 is table X with other attributes.
TableKey(t) == IF t = "X2" THEN "X" ELSE t

\* The sequence tables without the tables whose id is key (filter).
RECURSIVE WithoutTable(_, _)
WithoutTable(tables, key) ==
    IF tables = <<>> THEN <<>>
    ELSE IF TableKey(Head(tables)) = key
    THEN WithoutTable(Tail(tables), key)
    ELSE <<Head(tables)>> \o WithoutTable(Tail(tables), key)

\* putTable's new d.tables: the table replaces the ones with its id, or is
\* appended when there is none.
TablesWithPut(tables, table) ==
    IF \E i \in 1..Len(tables) : TableKey(tables[i]) = TableKey(table)
    THEN [i \in 1..Len(tables) |->
             IF TableKey(tables[i]) = TableKey(table) THEN table
             ELSE tables[i]]
    ELSE Append(tables, table)

\* A faulty variant: only the changed tables are sent to the server.
SetTablesSendingDelta(c, id, d, tables, k, inFlight) ==
    LET d1 == [d EXCEPT !.tables = tables,
                        !.updatedAt = [kind |-> "Date", time |-> now]]
    IN  /\ cache' = CacheSet(c, id, d1)
        /\ net' = inFlight \cup
              {[PersistRequest(c, id, d1, k) EXCEPT
                   !.diagram = [kind |-> "tables", tables |-> tables]]}

\* putTable / deleteTable once requireDiagram has returned d: d.tables is
\* assigned, the cache gets { ...d, updatedAt: new Date() }, persist sends
\* the cached diagram.
SetTables(c, id, d, tables, k, inFlight) ==
    LET d1 == [d EXCEPT !.tables = tables,
                        !.updatedAt = [kind |-> "Date", time |-> now]]
    IN  /\ cache' = CacheSet(c, id, d1)
        /\ net' = inFlight \cup {PersistRequest(c, id, d1, k)}

\* A call of the storage provider rejected with this error.
Threw(c, error) == [op |-> "threw", c |-> c, error |-> error]

\* The Error request() throws for a response that is not ok.
RequestError(reply) == reply.body.error

\* A faulty variant: a failed update is not reported to the caller.
PersistSwallowed(c, reply) == NoResp

\* What the caller of persist sees of the update's response: request()
\* throws unless the status is 2xx.
PersistReturned(c, reply) ==
    IF reply.status = 200 THEN NoResp ELSE Threw(c, RequestError(reply))

\* updateDiagram once getCachedOrFetch has returned d0: the cache gets
\* { ...d0, ...attributes, updatedAt: new Date() } under its id, persist
\* sends it.  (The attributes are a new name.)
UpdateDiagramTo(c, d0, name, inFlight) ==
    LET d == [d0 EXCEPT !.name = name,
                        !.updatedAt = [kind |-> "Date", time |-> now]]
    IN  /\ cache' = CacheSet(c, d.id, d)
        /\ net' = inFlight \cup
              {PersistRequest(c, d.id, d,
                  [op |-> "persist", table |-> "", base |-> d0.tables])}

\* A property the payload lacks reads as undefined.
PayloadDiagram(ev) ==
    IF "diagram" \in DOMAIN ev THEN ev.diagram ELSE UndefinedDoc

PayloadName(ev) == IF "name" \in DOMAIN ev THEN ev.name ELSE Undefined

PayloadUpdatedAt(ev) ==
    IF "updatedAt" \in DOMAIN ev
    THEN [kind |-> "string", value |-> ev.updatedAt]
    ELSE UndefinedDoc

\* A faulty variant: a cached diagram is never replaced by the event's.
ApplyKeepingLocal(c, ev, current) ==
    IF current = {} /\ ~FalsyDoc(PayloadDiagram(ev))
    THEN cache' = CacheSet(c, ev.id,
                           NormalizeDiagramDates(PayloadDiagram(ev)))
    ELSE UNCHANGED cache

\* applyServerWorkspaceUpdate once getCachedOrFetch has returned: current
\* is the set holding the cached diagram, or the empty set.
ApplyTo(c, ev, current) ==
    IF ~FalsyDoc(PayloadDiagram(ev))
    THEN cache' = CacheSet(c, ev.id,
                           NormalizeDiagramDates(PayloadDiagram(ev)))
    ELSE IF current = {} THEN UNCHANGED cache
    ELSE LET d == CHOOSE x \in current : TRUE IN
         cache' = CacheSet(c, ev.id,
            [d EXCEPT !.name = IF PayloadName(ev) # Undefined
                               THEN PayloadName(ev) ELSE @,
                      !.updatedAt = IF PayloadUpdatedAt(ev) # UndefinedDoc
                                    THEN NewDate(PayloadUpdatedAt(ev))
                                    ELSE @])

\* What a call of getDiagram(id) by client c resolved to (undefined when
\* the fetch failed).
Returned(c, id, d) == [op |-> "getDiagram", c |-> c, id |-> id, value |-> d]

\* getDiagram(id): getCachedOrFetch returns the cached diagram, or on a
\* miss awaits api.getWorkspace(id).
GetDiagram(c, id) ==
    /\ Pending(c) = {}
    /\ IF id \in DOMAIN cache[c]
       THEN /\ resp' = Returned(c, id, cache[c][id])
            /\ UNCHANGED net
       ELSE /\ net' = net \cup {GetRequest(c, id, [op |-> "getDiagram"])}
            /\ resp' = NoResp
    /\ UNCHANGED <<users, session, workspaces, members, now, rooms, chan,
                   cache, view>>

\* addTable({ diagramId, table }): on a cached diagram it mutates and
\* persists; on a miss requireDiagram fetches first.
AddTable(c, id, table) ==
    /\ IF id \in DOMAIN cache[c]
       THEN /\ Len(cache[c][id].tables) < Cardinality(TableIds)
            /\ AddTableTo(c, id, cache[c][id], table, net)
       ELSE /\ net' = net \cup
                  {GetRequest(c, id, [op |-> "addTable", table |-> table])}
            /\ UNCHANGED cache
    /\ resp' = NoResp
    /\ UNCHANGED <<users, session, workspaces, members, now, rooms, chan,
                   view>>

\* putTable({ diagramId, table }).
PutTable(c, id, table) ==
    /\ Pending(c) = {}
    /\ IF id \in DOMAIN cache[c]
       THEN /\ Len(TablesWithPut(cache[c][id].tables, table))
                  <= Cardinality(TableIds)
            /\ SetTables(c, id, cache[c][id],
                         TablesWithPut(cache[c][id].tables, table),
                         [op |-> "persist", table |-> table,
                          base |-> cache[c][id].tables], net)
       ELSE /\ net' = net \cup
                  {GetRequest(c, id, [op |-> "putTable", table |-> table])}
            /\ UNCHANGED cache
    /\ resp' = NoResp
    /\ UNCHANGED <<users, session, workspaces, members, now, rooms, chan,
                   view>>

\* deleteTable({ id, diagramId }).
DeleteTable(c, id, key) ==
    /\ Pending(c) = {}
    /\ IF id \in DOMAIN cache[c]
       THEN SetTables(c, id, cache[c][id],
                      WithoutTable(cache[c][id].tables, key),
                      [op |-> "persist", table |-> key,
                       base |-> cache[c][id].tables], net)
       ELSE /\ net' = net \cup
                  {GetRequest(c, id, [op |-> "deleteTable", table |-> key])}
            /\ UNCHANGED cache
    /\ resp' = NoResp
    /\ UNCHANGED <<users, session, workspaces, members, now, rooms, chan,
                   view>>

\* A faulty variant: any cached diagram is taken for the one to update.
FindAnyDiagram(c, key) == DOMAIN cache[c]

\* The cache keys of the diagrams of client c with a table of this id:
\* Array.from(diagramsRef.current.values()).find(...) returns one of them.
FindDiagramWith(c, key) ==
    {i \in DOMAIN cache[c] :
        \E n \in 1..Len(cache[c][i].tables) :
           TableKey(cache[c][i].tables[n]) = key}

\* { ...t, ...attributes }: table X with other attributes is X2.
WithAttributes(t) == IF t = "X" THEN "X2" ELSE t

\* A call of the storage provider resolved, with no value.
Resolved(c, call) == [op |-> "resolved", c |-> c, call |-> call]

\* updateTable({ id, attributes }): returns when no cached diagram has the
\* table; otherwise maps the tables of a copy, writes it under d.id and
\* persists d.id.
UpdateTable(c, key) ==
    /\ Pending(c) = {}
    /\ IF FindDiagramWith(c, key) = {}
       THEN /\ resp' = Resolved(c, "updateTable")
            /\ UNCHANGED <<cache, net>>
       ELSE /\ \E i \in FindDiagramWith(c, key) :
                 LET d == cache[c][i] IN
                 SetTables(c, d.id, d,
                    [n \in 1..Len(d.tables) |->
                        IF TableKey(d.tables[n]) = key
                        THEN WithAttributes(d.tables[n])
                        ELSE d.tables[n]],
                    [op |-> "persist", table |-> key, base |-> d.tables],
                    net)
            /\ resp' = NoResp
    /\ UNCHANGED <<users, session, workspaces, members, now, rooms, chan,
                   view>>

\* updateDiagram({ id, attributes }).
UpdateDiagram(c, id, name) ==
    /\ IF id \in DOMAIN cache[c]
       THEN UpdateDiagramTo(c, cache[c][id], name, net)
       ELSE /\ net' = net \cup
                  {GetRequest(c, id, [op |-> "updateDiagram",
                                      name |-> name])}
            /\ UNCHANGED cache
    /\ resp' = NoResp
    /\ UNCHANGED <<users, session, workspaces, members, now, rooms, chan,
                   view>>

\* api.createWorkspace({ id: d.id, name: d.name, diagram: d }) of
\* addDiagram; k keeps d for the catch.
CreateRequest(c, d) ==
    [kind |-> "req", c |-> c, uid |-> session[c], op |-> "create",
     id |-> d.id, name |-> d.name, diagram |-> ToJson(d),
     k |-> [op |-> "addDiagram", d |-> d]]

\* A faulty variant: a failed create is given up.
NoFallbackUpdate(c, d, k) == {}

\* The catch of addDiagram: api.updateWorkspace(d.id, { name: d.name,
\* diagram: d }) with the d of the call.
FallbackUpdate(c, d, k) == {PersistRequest(c, d.id, d, k)}

\* addDiagram({ diagram }): the normalized diagram is cached under its id,
\* then the create is sent.
AddDiagram(c, diagram) ==
    LET d == NormalizeDiagramDates(diagram) IN
    /\ cache' = CacheSet(c, d.id, d)
    /\ net' = net \cup {CreateRequest(c, d)}
    /\ resp' = NoResp
    /\ UNCHANGED <<users, session, workspaces, members, now, rooms, chan,
                   view>>

\* The cache of client c without its entry for id.
CacheDelete(c, id) ==
    [cache EXCEPT ![c] = [i \in DOMAIN @ \ {id} |-> @[i]]]

\* A faulty variant: the workspace and its memberships go as well.
DeleteDiagramOnServer(c, id) ==
    /\ cache' = CacheDelete(c, id)
    /\ workspaces' = [i \in DOMAIN workspaces \ {id} |-> workspaces[i]]
    /\ members' = {r \in members : r.workspace_id # id}
    /\ resp' = Resolved(c, "deleteDiagram")
    /\ UNCHANGED <<users, session, now, rooms, chan, view, net>>

\* deleteDiagram(id): diagramsRef.current.delete(id), nothing else.
DeleteDiagram(c, id) ==
    /\ cache' = CacheDelete(c, id)
    /\ resp' = Resolved(c, "deleteDiagram")
    /\ UNCHANGED <<users, session, workspaces, members, now, rooms, chan,
                   view, net>>

\* The server handles a request in flight and sends the response.
Serve(m) ==
    /\ m \in net /\ m.kind = "req"
    /\ CASE m.op = "get" -> HandleGet(m.c, m.uid, m.id)
         [] m.op = "put" ->
               HandlePut(m.c, m.uid, m.id, m.name, m.diagram)
         [] m.op = "create" ->
               \E fault \in BOOLEAN :
                  HandleCreate(m.c, m.uid, m.id, m.name, m.diagram, fault)
    /\ net' = (net \ {m}) \cup
          {[kind |-> "res", c |-> m.c, op |-> m.op, id |-> m.id,
            reply |-> resp', k |-> m.k]}
    /\ UNCHANGED <<users, session, now, rooms, cache, view>>

\* A response reaches the client: request() returns the body of a 2xx and
\* throws on any other status; the awaiting function continues.
OnResponse(m) ==
    /\ m \in net /\ m.kind = "res"
    /\ IF m.op = "create"
       THEN \* addDiagram returns, or its catch sends the update
            /\ UNCHANGED cache
            /\ IF m.reply.status = 200
               THEN /\ net' = net \ {m}
                    /\ resp' = Resolved(m.c, "addDiagram")
               ELSE /\ net' = (net \ {m}) \cup
                                 FallbackUpdate(m.c, m.k.d, m.k)
                    /\ resp' = NoResp
       ELSE IF m.op = "put"
       THEN \* persist or the update of addDiagram returns or rejects:
            \* nothing else follows
            /\ net' = net \ {m}
            /\ UNCHANGED cache
            /\ resp' = IF m.k.op = "addDiagram" /\ m.reply.status = 200
                       THEN Resolved(m.c, "addDiagram")
                       ELSE PersistReturned(m.c, m.reply)
       ELSE IF m.reply.status = 200
       THEN \* getCachedOrFetch stores the normalized diagram, returns it
            LET d == NormalizeDiagramDates(m.reply.body.diagram) IN
            CASE m.k.op = "getDiagram" ->
                    /\ cache' = CacheSet(m.c, m.id, d)
                    /\ net' = net \ {m}
                    /\ resp' = Returned(m.c, m.id, d)
              [] m.k.op = "addTable" ->
                    /\ AddTableTo(m.c, m.id, d, m.k.table, net \ {m})
                    /\ resp' = NoResp
              [] m.k.op = "putTable" ->
                    /\ SetTables(m.c, m.id, d,
                                 TablesWithPut(d.tables, m.k.table),
                                 [op |-> "persist", table |-> m.k.table,
                                  base |-> d.tables], net \ {m})
                    /\ resp' = NoResp
              [] m.k.op = "deleteTable" ->
                    /\ SetTables(m.c, m.id, d,
                                 WithoutTable(d.tables, m.k.table),
                                 [op |-> "persist", table |-> m.k.table,
                                  base |-> d.tables], net \ {m})
                    /\ resp' = NoResp
              [] m.k.op = "updateDiagram" ->
                    /\ UpdateDiagramTo(m.c, d, m.k.name, net \ {m})
                    /\ resp' = NoResp
              [] m.k.op = "apply" ->
                    /\ ApplyTo(m.c, m.k.ev, {d})
                    /\ net' = net \ {m}
                    /\ resp' = NoResp
       ELSE \* getCachedOrFetch returns undefined
            /\ net' = net \ {m}
            /\ IF m.k.op = "apply"
               THEN ApplyTo(m.c, m.k.ev, {})
               ELSE UNCHANGED cache
            /\ resp' = CASE m.k.op = "getDiagram" ->
                               Returned(m.c, m.id, UndefinedDoc)
                          [] m.k.op = "apply" -> NoResp
                          [] m.k.op = "updateDiagram" ->
                               Resolved(m.c, "updateDiagram")
                          [] OTHER -> \* requireDiagram throws
                               Threw(m.c, "Diagram not found")
    /\ UNCHANGED <<users, session, workspaces, members, now, rooms, chan,
                   view>>

\* The loader hook's effect for diagramId = id: a socket is opened, joins
\* the room and gets the 'workspace:update' listener.
EnterView(c, id) ==
    /\ view[c] = ""
    /\ view' = [view EXCEPT ![c] = id]
    /\ rooms' = [rooms EXCEPT ![id] = @ \cup {c}]
    /\ resp' = NoResp
    /\ UNCHANGED <<users, session, workspaces, members, now, chan, cache,
                   net>>

\* The effect's cleanup: leave, remove the listener, disconnect.
ExitView(c) ==
    /\ view[c] # ""
    /\ view' = [view EXCEPT ![c] = ""]
    /\ rooms' = [id \in WsIds |-> rooms[id] \ {c}]
    /\ chan' = [chan EXCEPT ![c] = <<>>]
    /\ resp' = NoResp
    /\ UNCHANGED <<users, session, workspaces, members, now, cache, net>>

\* diagramId changes from one diagram to another: the cleanup of the old
\* effect runs, then the effect for id.
ChangeView(c, id) ==
    /\ view[c] # "" /\ view[c] # id
    /\ view' = [view EXCEPT ![c] = id]
    /\ rooms' = [i \in WsIds |-> IF i = id THEN rooms[i] \cup {c}
                                 ELSE rooms[i] \ {c}]
    /\ chan' = [chan EXCEPT ![c] = <<>>]
    /\ resp' = NoResp
    /\ UNCHANGED <<users, session, workspaces, members, now, cache, net>>

\* An event reaches the client's socket.  Only 'workspace:update' has a
\* listener: onUpdate drops a payload of another diagram and otherwise
\* calls applyServerWorkspaceUpdate, which fetches on a cache miss.
OnSocketEvent(c) ==
    /\ chan[c] # <<>>
    /\ LET ev == Head(chan[c]) IN
       /\ chan' = [chan EXCEPT ![c] = Tail(@)]
       /\ resp' = NoResp
       /\ IF ev.type # "workspace:update" \/ ev.id # view[c]
          THEN UNCHANGED <<cache, net>>
          ELSE IF ev.id \in DOMAIN cache[c]
          THEN /\ ApplyTo(c, ev, {cache[c][ev.id]})
               /\ UNCHANGED net
          ELSE /\ net' = net \cup
                     {GetRequest(c, ev.id, [op |-> "apply", ev |-> ev])}
               /\ UNCHANGED cache
    /\ UNCHANGED <<users, session, workspaces, members, now, rooms, view>>

(***************************************************************************)
(* Request inputs.                                                         *)
(***************************************************************************)
Emails == {"a@x.com", "b@x.com"}
\* Diagrams as they arrive in a request body (JSON values).
DocEmpty == ToJson(Diagram("w1", "n1", <<>>, 0, 0))
DocX == ToJson(Diagram("w1", "n1", <<"X">>, 0, 0))

(***************************************************************************)
(* Spec: the workspace store behind the session gate.  Two browsers sign   *)
(* up, then create, read and update workspaces while time passes.          *)
(***************************************************************************)
CreateIds == {"", "w1"}
CreateNames == {"", "n1"}
CreateDocs == {UndefinedDoc, DocEmpty}
PutNames == {Undefined, "n2"}
PutDocs == {UndefinedDoc, DocX}

Next ==
    \/ Tick(MaxClock)
    \/ \E c \in Clients, e \in Emails : Signup(c, e, "pw")
    \/ \E c \in Clients, id \in CreateIds, name \in CreateNames,
          d \in CreateDocs, fault \in BOOLEAN :
          Create(c, id, name, d, fault)
    \/ \E c \in Clients, id \in WsIds : Get(c, id)
    \/ \E c \in Clients : List(c)
    \/ \E c \in Clients, id \in WsIds, name \in PutNames, d \in PutDocs :
          Put(c, id, name, d)

Spec == Init /\ [][Next]_vars

(***************************************************************************)
(* Claims about the store (checked under Spec).                            *)
(***************************************************************************)
\* C1: a GET of workspace w by an authenticated principal u succeeds iff a
\* membership row exists for (u, w); every failure is the same 404 with the
\* same body, whether w is missing or exists without a membership of u.
C1_GetIffMembership ==
    (resp.op = "get" /\ Authenticated(resp.uid)) =>
        /\ resp.status = 200 <=> HasMembership(members, resp.uid, resp.id)
        /\ resp.status # 200 => resp.status = 404 /\ resp.body = NotFound

\* A GET of an existing workspace by a principal without membership was
\* answered 404.
C1_Witness ==
    /\ resp.op = "get" /\ Authenticated(resp.uid)
    /\ resp.id \in DOMAIN workspaces
    /\ ~HasMembership(members, resp.uid, resp.id)
    /\ resp.status = 404

\* C3 as stated: a create whose id already exists, by any principal and
\* with any name and document, is answered 409 and changes neither
\* workspaces nor memberships.
C3_CreateExistingAnyName ==
    [][\A c \in Clients, id \in CreateIds, name \in CreateNames,
          d \in CreateDocs, fault \in BOOLEAN :
          (/\ id \in DOMAIN workspaces
           /\ Authenticated(session[c])
           /\ resp'.op = "create" /\ resp'.c = c
           /\ Create(c, id, name, d, fault))
          => resp'.status = 409 /\ UNCHANGED <<workspaces, members>>]_vars

\* C3 amended: a create whose id already exists, by any principal, with a
\* non-empty name and any document, is answered 409; with an empty or
\* missing name it is answered 400; either way workspaces and memberships
\* are unchanged.
C3_CreateExistingConflict ==
    [][\A c \in Clients, id \in CreateIds, name \in CreateNames,
          d \in CreateDocs, fault \in BOOLEAN :
          (/\ id \in DOMAIN workspaces
           /\ Authenticated(session[c])
           /\ resp'.op = "create" /\ resp'.c = c
           /\ Create(c, id, name, d, fault))
          => /\ resp'.status = IF Falsy(name) THEN 400 ELSE 409
             /\ UNCHANGED <<workspaces, members>>]_vars

\* A create of an existing id by a principal other than its owner was
\* answered 409.
C3_Witness ==
    /\ resp.op = "create" /\ resp.status = 409
    /\ resp.id \in DOMAIN workspaces
    /\ workspaces[resp.id].owner_id # resp.uid

\* C4: every workspace row has exactly one membership row with role owner.
C4_OwnerMembershipAtomic ==
    \A id \in DOMAIN workspaces :
        Cardinality({m \in members :
                        m.workspace_id = id /\ m.role = "owner"}) = 1

\* A create whose second statement failed was answered 500 and left the
\* workspace row without any membership row.
C4_Witness ==
    /\ resp.op = "create" /\ resp.status = 500
    /\ resp.id \in DOMAIN workspaces
    /\ \A m \in members : m.workspace_id # resp.id

\* C5: the updatedAt a successful update returns is the server clock's
\* stamp, it is what the row then stores, and it is not below the value the
\* row stored before, as text and as an instant; no step lowers a row's
\* updated_at.
C5_UpdatedAtMonotone ==
    [][/\ \A id \in DOMAIN workspaces :
             /\ id \in DOMAIN workspaces'
             /\ TextLeq(workspaces[id].updated_at, workspaces'[id].updated_at)
             /\ Instant(workspaces[id].updated_at)
                   <= Instant(workspaces'[id].updated_at)
       /\ (resp'.op = "put" /\ resp'.status = 200) =>
             /\ resp'.body.updatedAt = ToISOString(now)
             /\ workspaces'[resp'.id].updated_at = resp'.body.updatedAt
             /\ TextLeq(workspaces[resp'.id].updated_at,
                        resp'.body.updatedAt)
             /\ Instant(workspaces[resp'.id].updated_at)
                   <= Instant(resp'.body.updatedAt)]_vars

\* An update that carried a diagram with its own, older updatedAt was
\* stamped later than the row's creation.
C5_Witness ==
    /\ resp.op = "put" /\ resp.status = 200
    /\ workspaces[resp.id].updated_at = resp.body.updatedAt
    /\ workspaces[resp.id].diagram_json = JsonStringify(DocX)
    /\ Instant(resp.body.updatedAt) > Instant(DocX.updatedAt.value)

(***************************************************************************)
(* SpecRealtime: the rooms.  Browser A signs up as a@x.com and creates w1, *)
(* browser B signs up as b@x.com; both hold a socket on which they join,   *)
(* leave, relay patches and are sent the events of A's updates.            *)
(***************************************************************************)
Patches == {[cursor |-> 5]}

NextRealtime ==
    \/ Tick(MaxClockRealtime)
    \/ Signup("A", "a@x.com", "pw")
    \/ Signup("B", "b@x.com", "pw")
    \/ Create("A", "w1", "n1", DocEmpty, FALSE)
    \/ \E c \in Clients : Put(c, "w1", Undefined, DocX)
    \/ \E c \in Clients : Join(c, "w1")
    \/ \E c \in Clients : Leave(c, "w1")
    \/ \E c \in Clients, p \in Patches : Relay(c, "w1", p)
    \/ \E c \in Clients : Disconnect(c)
    \/ \E c \in Clients : Drain(c)

SpecRealtime == Init /\ [][NextRealtime]_vars

(***************************************************************************)
(* Claims about the rooms (checked under SpecRealtime).                    *)
(***************************************************************************)
\* The tables without workspace w and its memberships.
EraseWorkspace(W, w) == [i \in DOMAIN W \ {w} |-> W[i]]
EraseMembers(M, w) == {m \in M : m.workspace_id # w}

\* C2: a principal u without membership of workspace w cannot observe
\* whether w exists: every reply u can obtain for w (get, update, list,
\* create) is the one u would obtain were w and its memberships erased, and
\* no persisted-update event of w is sent to a connection of u.
C2_ExistenceHidden ==
    \A u \in 1..Len(users), w \in DOMAIN workspaces :
        ~HasMembership(members, u, w) =>
            LET W0 == EraseWorkspace(workspaces, w)
                M0 == EraseMembers(members, w)
            IN  \A c \in Clients :
                /\ GetReply(workspaces, members, c, u, w)
                      = GetReply(W0, M0, c, u, w)
                /\ ListReplies(workspaces, members, c, u)
                      = ListReplies(W0, M0, c, u)
                /\ \A d \in PutDocs :
                      PutReply(workspaces, members, c, u, w, d, now)
                         = PutReply(W0, M0, c, u, w, d, now)
                /\ \A name \in CreateNames, fault \in BOOLEAN :
                      CreateReply(workspaces, c, u, w, name, fault)
                         = CreateReply(W0, c, u, w, name, fault)
                /\ session[c] = u =>
                      \A i \in 1..Len(chan[c]) :
                         ~(chan[c][i].type = "workspace:update"
                              /\ chan[c][i].id = w)

\* The connection of a signed-in principal without membership of w holds a
\* persisted-update event of w.
C2_Witness ==
    \E c \in Clients, w \in DOMAIN workspaces :
       /\ Authenticated(session[c])
       /\ ~HasMembership(members, session[c], w)
       /\ \E i \in 1..Len(chan[c]) :
             chan[c][i].type = "workspace:update" /\ chan[c][i].id = w

\* C6: on every successful update of workspace id, every connection joined
\* to the room of id, the updating client's included, is sent exactly one
\* persisted-update event more, after the events already queued for it,
\* whose updatedAt is the one the reply returns and the row stores.
C6_PersistedUpdateFanOut ==
    [][(resp'.op = "put" /\ resp'.status = 200) =>
          \A k \in rooms[resp'.id] :
             /\ Len(chan'[k]) = Len(chan[k]) + 1
             /\ SubSeq(chan'[k], 1, Len(chan[k])) = chan[k]
             /\ LET ev == chan'[k][Len(chan'[k])] IN
                /\ ev.type = "workspace:update"
                /\ ev.id = resp'.id
                /\ ev.updatedAt = resp'.body.updatedAt
                /\ ev.updatedAt = workspaces'[resp'.id].updated_at]_vars

\* An update by a client whose own connection and the other client's are
\* joined was answered 200 after the clock moved, and both connections hold
\* its event.
C6_Witness ==
    /\ resp.op = "put" /\ resp.status = 200 /\ now > 0
    /\ rooms[resp.id] = Clients
    /\ \A k \in Clients :
          /\ chan[k] # <<>>
          /\ chan[k][Len(chan[k])].type = "workspace:update"
          /\ chan[k][Len(chan[k])].updatedAt = resp.body.updatedAt

\* C9: a relay-update {id, patch} emitted by a connection joined to room id
\* is sent as relay-patch, with the same id and patch, to every other
\* connection joined to the room, and to no one else: never to the sender.
C9_RelayToOthersOnly ==
    [][(resp'.op = "relay" /\ resp'.c \in rooms[resp'.id]) =>
          \A k \in Clients :
             chan'[k] =
                IF k \in rooms[resp'.id] /\ k # resp'.c
                THEN Append(chan[k], [type |-> "workspace:patch",
                                      id |-> resp'.id,
                                      patch |-> resp'.patch])
                ELSE chan[k]]_vars

\* A joined connection relayed a patch: the other joined connection holds
\* it, the sender holds none.
C9_Witness ==
    /\ resp.op = "relay" /\ rooms[resp.id] = Clients
    /\ \A k \in Clients \ {resp.c} :
          /\ chan[k] # <<>>
          /\ chan[k][Len(chan[k])] = [type |-> "workspace:patch",
                                      id |-> resp.id, patch |-> resp.patch]
    /\ \A i \in 1..Len(chan[resp.c]) :
          chan[resp.c][i].type # "workspace:patch"

(***************************************************************************)
(* SpecSync: two browsers of the same user.  A signs up and creates w1, B  *)
(* logs in; both view, fetch and edit w1 through the storage provider      *)
(* while requests, responses and events are in flight.                     *)
(***************************************************************************)
\* Both browsers hold the owner's session and w1 exists.
SyncReady == session = [c \in Clients |-> 1] /\ workspaces # <<>>

NextSync ==
    \/ users = <<>> /\ Signup("A", "a@x.com", "pw")
    \/ session["B"] = 0 /\ Login("B", "a@x.com", "pw")
    \/ workspaces = <<>> /\ Create("A", "w1", "n1", DocEmpty, FALSE)
    \/ \E c \in Clients :
          SyncReady /\ "w1" \notin DOMAIN cache[c] /\ GetDiagram(c, "w1")
    \/ SyncReady /\ Pending("A") = {} /\ AddTable("A", "w1", "X")
    \/ SyncReady /\ Pending("B") = {} /\ AddTable("B", "w1", "Y")
    \/ \E m \in net : Serve(m)
    \/ \E m \in net : OnResponse(m)
    \/ \E c \in Clients : SyncReady /\ EnterView(c, "w1")
    \/ \E c \in Clients : ExitView(c)
    \/ \E c \in Clients : OnSocketEvent(c)

SpecSync == Init /\ [][NextSync]_vars


(***************************************************************************)
(* Claims about concurrent editing (checked under SpecSync).               *)
(***************************************************************************)
\* The tables of the document the server stores for workspace id.
StoredTables(W, id) == JsonParse(W[id].diagram_json).tables

\* The persist request m of an addTable is answered in this step.
PersistServed(m) ==
    /\ m \in net /\ m.kind = "req" /\ m.op = "put" /\ m.k.op = "persist"
    /\ m \notin net'
    /\ resp'.op = "put" /\ resp'.c = m.c

\* C7: the last writer wins.  When the persist of an addTable is served,
\* the stored document becomes the writer's copy, the tables it held plus
\* the new one, whatever was stored before: with A's X stored and B's
\* stale copy holding neither X nor Y, B's persist is answered 200 and the
\* stored document afterwards contains Y and does not contain X.
C7_LastWriterWins ==
    [][\A m \in net :
          PersistServed(m) =>
             /\ resp'.status = 200
             /\ StoredTables(workspaces', m.id) = Append(m.k.base, m.k.table)
             /\ \A x \in TableIds :
                   (x # m.k.table
                      /\ \A i \in 1..Len(m.k.base) : m.k.base[i] # x)
                   => \A i \in 1..Len(StoredTables(workspaces', m.id)) :
                         StoredTables(workspaces', m.id)[i] # x]_vars

\* A's addTable of X was persisted, then B's addTable of Y on a copy
\* without X: A still caches X, the server stores Y alone.
C7_Witness ==
    /\ resp.op = "put" /\ resp.c = "B" /\ resp.status = 200
    /\ StoredTables(workspaces, "w1") = <<"Y">>
    /\ "w1" \in DOMAIN cache["A"] /\ cache["A"]["w1"].tables = <<"X">>
    /\ "w1" \in DOMAIN cache["B"] /\ cache["B"]["w1"].tables = <<"Y">>
    /\ Pending("A") = {}

\* C8: when the persist of an addTable on workspace id is answered 200, every
\* connection joined to the room of id, the other client's included, is
\* sent a persisted-update event of id whose document includes the new
\* table.
C8_AddTableBroadcast ==
    [][\A m \in net :
          (PersistServed(m) /\ resp'.status = 200) =>
             \A k \in rooms[m.id] :
                /\ Len(chan'[k]) = Len(chan[k]) + 1
                /\ LET ev == chan'[k][Len(chan'[k])] IN
                   /\ ev.type = "workspace:update" /\ ev.id = m.id
                   /\ PayloadDiagram(ev).kind = "diagram"
                   /\ \E i \in 1..Len(PayloadDiagram(ev).tables) :
                         PayloadDiagram(ev).tables[i] = m.k.table]_vars

\* A and B both view w1, A's addTable of X was persisted and B's
\* connection holds the event with X.
C8_Witness ==
    /\ resp.op = "put" /\ resp.c = "A" /\ resp.status = 200
    /\ view = [c \in Clients |-> "w1"] /\ rooms["w1"] = Clients
    /\ chan["B"] # <<>>
    /\ LET ev == chan["B"][Len(chan["B"])] IN
       /\ ev.type = "workspace:update" /\ ev.id = "w1"
       /\ \E i \in 1..Len(ev.diagram.tables) : ev.diagram.tables[i] = "X"

(***************************************************************************)
(* SpecRelay: the two browsers of SpecSync view w1 and relay patches to    *)
(* each other while A updates the document.                                *)
(***************************************************************************)
NextRelay ==
    \/ users = <<>> /\ Signup("A", "a@x.com", "pw")
    \/ session["B"] = 0 /\ Login("B", "a@x.com", "pw")
    \/ workspaces = <<>> /\ Create("A", "w1", "n1", DocEmpty, FALSE)
    \/ \E c \in Clients :
          SyncReady /\ "w1" \notin DOMAIN cache[c] /\ GetDiagram(c, "w1")
    \/ SyncReady /\ Put("A", "w1", "n2", DocX)
    \/ \E m \in net : Serve(m)
    \/ \E m \in net : OnResponse(m)
    \/ \E c \in Clients : SyncReady /\ EnterView(c, "w1")
    \/ \E c \in Clients : OnSocketEvent(c)
    \/ \E c \in Clients, p \in Patches : view[c] # "" /\ Relay(c, "w1", p)

SpecRelay == Init /\ [][NextRelay]_vars

\* The persisted-update events among the events queued for a connection.
RECURSIVE PersistedUpdates(_)
PersistedUpdates(q) ==
    IF q = <<>> THEN <<>>
    ELSE IF Head(q).type = "workspace:update"
    THEN <<Head(q)>> \o PersistedUpdates(Tail(q))
    ELSE PersistedUpdates(Tail(q))

\* The head event of some connection, a relay-patch, reaches its client in
\* this step.
PatchDelivered ==
    \E c \in Clients :
       /\ chan[c] # <<>> /\ Head(chan[c]).type = "workspace:patch"
       /\ chan' = [chan EXCEPT ![c] = Tail(@)]
       /\ view' = view

\* C10: a relay is transient.  Neither the step in which the server relays
\* a patch nor the step in which a relay-patch reaches a client changes the
\* stored workspaces or memberships, any client's cache or the requests in
\* flight, and neither adds a persisted-update event to any connection.
C10_RelayIsTransient ==
    [][(resp'.op = "relay" \/ PatchDelivered) =>
          /\ UNCHANGED <<workspaces, members, cache, net>>
          /\ \A k \in Clients :
                PersistedUpdates(chan'[k]) = PersistedUpdates(chan[k])]_vars

\* A relayed a patch while both browsers view w1 with the diagram cached:
\* B's connection holds the patch behind a persisted-update not yet
\* delivered.
C10_Witness ==
    /\ resp.op = "relay" /\ resp.c = "A" /\ rooms["w1"] = Clients
    /\ \A c \in Clients : "w1" \in DOMAIN cache[c] /\ view[c] = "w1"
    /\ Len(chan["B"]) >= 2
    /\ chan["B"][Len(chan["B"])].type = "workspace:patch"
    /\ PersistedUpdates(chan["B"]) # <<>>

(***************************************************************************)
(* SpecAuth: two browsers sign up, log in with right and wrong passwords,  *)
(* log out, ask for their session and send workspace requests.             *)
(***************************************************************************)
AuthEmails == {"", "a@x.com", "b@x.com"}
AuthPasswords == {"", "pw", "wrong"}

NextAuth ==
    \/ \E c \in Clients, e \in AuthEmails : Signup(c, e, "pw")
    \/ \E c \in Clients : Signup(c, "a@x.com", "")
    \/ \E c \in Clients, e \in AuthEmails, pw \in AuthPasswords :
          Login(c, e, pw)
    \/ \E c \in Clients : Logout(c)
    \/ \E c \in Clients : Session(c)
    \/ \E c \in Clients : Create(c, "w1", "n1", DocEmpty, FALSE)
    \/ \E c \in Clients : Get(c, "w1")
    \/ \E c \in Clients : List(c)
    \/ \E c \in Clients : Put(c, "w1", "n2", UndefinedDoc)

SpecAuth == Init /\ [][NextAuth]_vars

\* The principal GET /api/session would return to client c.
CurrentSession(U, S, c) == SessionReply(U, c, S[c]).body.user

\* C11: the session of a client is the principal of its most recent
\* successful signup or login since its last logout, or none.  Step by
\* step: a successful signup or login of c makes it the user the reply
\* names; a failed one (400, 401, 409) leaves the sessions and the users
\* table as they were; a logout of c makes it none; every other step, and
\* every step of another client, leaves what c's session returns unchanged.
C11_SessionIsLastLogin ==
    [][\A c \in Clients :
          IF resp'.op \in {"signup", "login"} /\ resp'.c = c
          THEN IF resp'.status = 200
               THEN CurrentSession(users', session', c) = resp'.body
               ELSE /\ resp'.status \in {400, 401, 409}
                    /\ UNCHANGED <<users, session>>
          ELSE IF resp'.op = "logout" /\ resp'.c = c
          THEN CurrentSession(users', session', c) = NullDoc
          ELSE CurrentSession(users', session', c)
                  = CurrentSession(users, session, c)]_vars

\* Browser A, signed up as a@x.com, had a login with the wrong password
\* answered 401: its session still returns a@x.com.
C11_Witness ==
    /\ resp.op = "login" /\ resp.c = "A" /\ resp.status = 401
    /\ session["A"] # 0
    /\ CurrentSession(users, session, "A")
          = [id |-> session["A"], email |-> "a@x.com"]

\* C12: a login with an unknown email and a login with a known email and a
\* wrong password get the identical reply, 401 with the same error body,
\* which depends on neither the email nor the password; neither changes a
\* session.
C12_LoginFailuresAlike ==
    [][\A c \in Clients, e \in AuthEmails, pw \in AuthPasswords :
          (/\ resp'.op = "login" /\ resp'.c = c
           /\ ~Falsy(e) /\ ~Falsy(pw)
           /\ \/ UserByEmail(e) = 0
              \/ ~CompareSync(pw, users[UserByEmail(e)].password_hash)
           /\ Login(c, e, pw))
          => /\ resp' = Reply("login", c, session[c], "", 401,
                              [error |-> "Invalid credentials"])
             /\ UNCHANGED session]_vars

\* With a@x.com registered and b@x.com not, a login was answered 401.
C12_Witness ==
    /\ resp.op = "login" /\ resp.status = 401
    /\ UserByEmail("a@x.com") # 0 /\ UserByEmail("b@x.com") = 0

\* The replies to the workspace requests of a client holding session uid,
\* over the tables W and M.
WorkspaceReplies(W, M, c, uid, t) ==
    {GetReply(W, M, c, uid, "w1"),
     CreateReply(W, c, uid, "w1", "n1", FALSE),
     PutReply(W, M, c, uid, "w1", UndefinedDoc, t)}
       \cup ListReplies(W, M, c, uid)

\* C13: a logout is answered 200 {ok: true} with or without a session and
\* leaves the client without one; a client without session gets none from
\* its session request and 401 from each of its workspace requests; and
\* only a successful signup or login of that client gives it a session
\* again.
C13_LogoutEndsSession ==
    [][/\ resp'.op = "logout" =>
             /\ resp'.status = 200 /\ resp'.body = [ok |-> TRUE]
             /\ session'[resp'.c] = 0
       /\ \A c \in Clients :
             /\ session'[c] = 0 =>
                   /\ CurrentSession(users', session', c) = NullDoc
                   /\ \A r \in WorkspaceReplies(workspaces', members', c,
                                                session'[c], now') :
                         r.status = 401 /\ r.body = Unauthorized
             /\ (session[c] = 0 /\ session'[c] # 0) =>
                   /\ resp'.op \in {"signup", "login"}
                   /\ resp'.c = c /\ resp'.status = 200]_vars

\* Browser A logged out of a session that owned w1.
C13_Witness ==
    /\ resp.op = "logout" /\ resp.c = "A" /\ resp.uid # 0
    /\ "w1" \in DOMAIN workspaces /\ workspaces["w1"].owner_id = resp.uid
    /\ session["A"] = 0

(***************************************************************************)
(* SpecUpdate: a@x.com (browser A) creates w1, b@x.com (browser B) w2;     *)
(* both update, read and list with names and documents present, null,      *)
(* falsy or absent; B logs out and in again and its socket listens to w1.  *)
(***************************************************************************)
UpdateNames == {Undefined, Null, "", "n2"}
UpdateDocs == {UndefinedDoc, NullDoc, FalseDoc, DocX}
UpdateCreateDocs == {UndefinedDoc, NullDoc, FalseDoc, DocEmpty}

NextUpdate ==
    \/ Signup("A", "a@x.com", "pw")
    \/ Signup("B", "b@x.com", "pw")
    \/ Logout("B")
    \/ Login("B", "b@x.com", "pw")
    \/ \E d \in UpdateCreateDocs : Create("A", "w1", "n1", d, FALSE)
    \/ Create("B", "w2", "n1", DocEmpty, FALSE)
    \/ \E c \in Clients, name \in UpdateNames, d \in UpdateDocs :
          Queued(Clients) = 0 /\ Put(c, "w1", name, d)
    \/ \E c \in Clients : Get(c, "w1")
    \/ \E c \in Clients : List(c)
    \/ Join("B", "w1")
    \/ Drain("B")

SpecUpdate == Init /\ [][NextUpdate]_vars

\* The step is a PUT of w1 by c with this name and document, answered 200.
PutApplied(c, name, d) ==
    /\ resp'.op = "put" /\ resp'.c = c /\ resp'.status = 200
    /\ Put(c, "w1", name, d)

\* Nothing but the name, the document and updated_at of w1 changes.
OnlyRowChanges(id) ==
    /\ DOMAIN workspaces' = DOMAIN workspaces
    /\ \A i \in DOMAIN workspaces \ {id} : workspaces'[i] = workspaces[i]
    /\ workspaces'[id].owner_id = workspaces[id].owner_id
    /\ UNCHANGED <<users, session, members>>

\* C14 as stated: an update by a member applies every field the request
\* provides and leaves every field it does not provide as stored; nothing
\* but the name, the document and updated_at of that workspace changes.
C14_UpdateFrame ==
    [][\A c \in Clients, name \in UpdateNames, d \in UpdateDocs :
          PutApplied(c, name, d) =>
             /\ workspaces'["w1"].name =
                   IF name = Undefined THEN workspaces["w1"].name ELSE name
             /\ workspaces'["w1"].diagram_json =
                   IF d = UndefinedDoc THEN workspaces["w1"].diagram_json
                   ELSE JsonStringify(d)
             /\ OnlyRowChanges("w1")]_vars

\* C14 amended: an update by a member applies a provided name unless it is
\* null and a provided document unless it is falsy (null, false); an
\* absent field, a null name and a falsy document leave the stored value;
\* nothing but the name, the document and updated_at of that workspace
\* changes.
C14_AppliedWhenTruthy ==
    [][\A c \in Clients, name \in UpdateNames, d \in UpdateDocs :
          PutApplied(c, name, d) =>
             /\ workspaces'["w1"].name =
                   IF name \in {Undefined, Null}
                   THEN workspaces["w1"].name ELSE name
             /\ workspaces'["w1"].diagram_json =
                   IF d \in {UndefinedDoc, NullDoc, FalseDoc}
                   THEN workspaces["w1"].diagram_json
                   ELSE JsonStringify(d)
             /\ OnlyRowChanges("w1")]_vars

\* An update that provided the name n2 and no document, announced to B's
\* socket, was applied: the row holds n2 and the document of the create.
C14_Witness ==
    /\ resp.op = "put" /\ resp.status = 200 /\ chan["B"] # <<>>
    /\ PayloadName(chan["B"][1]) = "n2"
    /\ PayloadDiagram(chan["B"][1]) = UndefinedDoc
    /\ chan["B"][1].updatedAt = workspaces["w1"].updated_at
    /\ workspaces["w1"].name = "n2"
    /\ workspaces["w1"].diagram_json = JsonStringify(DocEmpty)

\* C15 as stated: the persisted-update event of an update carries the id
\* and the updated_at the row holds after the update, and any name or
\* document present in the event equals the one the row then holds.
C15_EventMatchesStore ==
    [][(resp'.op = "put" /\ resp'.status = 200) =>
          \A k \in rooms[resp'.id] :
             LET ev == chan'[k][Len(chan'[k])]
                 row == workspaces'[resp'.id]
             IN  /\ ev.type = "workspace:update" /\ ev.id = resp'.id
                 /\ ev.updatedAt = row.updated_at
                 /\ PayloadName(ev) # Undefined => PayloadName(ev) = row.name
                 /\ PayloadDiagram(ev) # UndefinedDoc =>
                       PayloadDiagram(ev) = JsonParse(row.diagram_json)]_vars

\* An update was announced to B's socket with the name n2 and the
\* document with table X, and the row holds both.
C15_Witness ==
    /\ resp.op = "put" /\ resp.status = 200 /\ chan["B"] # <<>>
    /\ PayloadName(chan["B"][1]) = "n2"
    /\ PayloadDiagram(chan["B"][1]) = DocX
    /\ chan["B"][1].updatedAt = workspaces["w1"].updated_at
    /\ workspaces["w1"].name = "n2"
    /\ JsonParse(workspaces["w1"].diagram_json) = DocX

\* C15 amended: the persisted-update event of an update carries the id and
\* the updated_at the row holds after the update, and a name of the event
\* that is not null and a document of the event that is truthy equal the
\* ones the row then holds (the event repeats the request body, so a null
\* name or a falsy document stands beside a row that kept its value).
C15_EventMatchesWhenTruthy ==
    [][(resp'.op = "put" /\ resp'.status = 200) =>
          \A k \in rooms[resp'.id] :
             LET ev == chan'[k][Len(chan'[k])]
                 row == workspaces'[resp'.id]
             IN  /\ ev.type = "workspace:update" /\ ev.id = resp'.id
                 /\ ev.updatedAt = row.updated_at
                 /\ PayloadName(ev) \notin {Undefined, Null} =>
                       PayloadName(ev) = row.name
                 /\ ~FalsyDoc(PayloadDiagram(ev)) =>
                       PayloadDiagram(ev) = JsonParse(row.diagram_json)]_vars

\* C16: authorization comes before any mutation.  A list, create, get or
\* update without a session is answered 401, an update by a principal
\* without membership 404 Not found; either way users, workspaces and
\* memberships are unchanged and no event is sent to any connection.
C16_AuthorizationFirst ==
    [][/\ (resp'.op \in {"list", "create", "get", "put"}
             /\ ~Authenticated(resp'.uid))
          => /\ resp'.status = 401 /\ resp'.body = Unauthorized
             /\ UNCHANGED <<users, workspaces, members, chan>>
       /\ (resp'.op = "put" /\ Authenticated(resp'.uid)
             /\ ~HasMembership(members, resp'.uid, resp'.id))
          => /\ resp'.status = 404 /\ resp'.body = NotFound
             /\ UNCHANGED <<users, workspaces, members, chan>>]_vars

\* b@x.com, no member of the existing w1, had an update of w1 answered 404
\* while its own socket was joined to w1; the socket holds no event.
C16_Witness ==
    /\ resp.op = "put" /\ resp.c = "B" /\ resp.status = 404
    /\ Authenticated(resp.uid) /\ "w1" \in DOMAIN workspaces
    /\ rooms["w1"] = {"B"} /\ chan["B"] = <<>>

(***************************************************************************)
(* SpecList: the two browsers sign up, create and update w1 and w2 and     *)
(* list their workspaces while time passes.                                *)
(***************************************************************************)
NextList ==
    \/ Tick(MaxClock)
    \/ users = <<>> /\ Signup("A", "a@x.com", "pw")
    \/ Len(users) = 1 /\ Signup("B", "b@x.com", "pw")
    \/ \E c \in Clients, id \in WsIds : Create(c, id, "n1", DocEmpty, FALSE)
    \/ \E c \in Clients, id \in WsIds : Put(c, id, Undefined, DocX)
    \/ \E c \in Clients : List(c)

SpecList == Init /\ [][NextList]_vars

\* The ids of the rows of a list reply.
ListedIds(rows) == {rows[i].id : i \in 1..Len(rows)}

\* C17: a list returns exactly the workspaces of which the principal holds
\* a membership, each once, in descending order of updated-at, a workspace
\* never updated standing by the updated-at of its creation.
C17_ListOrdered ==
    (resp.op = "list" /\ resp.status = 200) =>
        /\ ListedIds(resp.body) = SelectIdsFor(workspaces, members, resp.uid)
        /\ Len(resp.body) = Cardinality(ListedIds(resp.body))
        /\ \A i, j \in 1..Len(resp.body) :
              i < j => Instant(resp.body[i].updated_at)
                          >= Instant(resp.body[j].updated_at)

\* A list put a workspace updated earlier before one created later.
C17_Witness ==
    /\ resp.op = "list" /\ resp.status = 200 /\ Len(resp.body) = 2
    /\ resp.body[1].updated_at.sep = "T" /\ resp.body[2].updated_at.sep = " "
    /\ Instant(resp.body[1].updated_at) < Instant(resp.body[2].updated_at)

\* What does hold: the list is exactly the principal's workspaces, each
\* once, in descending order of the text of updated_at.
C17_ListOrderedAsText ==
    (resp.op = "list" /\ resp.status = 200) =>
        /\ ListedIds(resp.body) = SelectIdsFor(workspaces, members, resp.uid)
        /\ Len(resp.body) = Cardinality(ListedIds(resp.body))
        /\ \A i, j \in 1..Len(resp.body) :
              i < j => TextLeq(resp.body[j].updated_at,
                               resp.body[i].updated_at)

(***************************************************************************)
(* Delivery (checked under SpecRealtime).                                  *)
(***************************************************************************)
\* C18: delivery is at most once and nothing is replayed.  In every step
\* the persisted-update events queued for a connection stay as they are,
\* lose their head (it is delivered) or are dropped (the connection
\* closes); one event more is queued only by a successful update, the
\* update's own event, and only for a connection joined to the room at
\* that moment.  So no join, leave, reconnect or later step hands a
\* connection an event of an update persisted before.
C18_AtMostOnceNoReplay ==
    [][\A k \in Clients :
          LET old == PersistedUpdates(chan[k])
              new == PersistedUpdates(chan'[k])
          IN  \/ new = old
              \/ old # <<>> /\ new = Tail(old)
              \/ new = <<>>
              \/ /\ Len(new) = Len(old) + 1
                 /\ SubSeq(new, 1, Len(old)) = old
                 /\ resp'.op = "put" /\ resp'.status = 200
                 /\ k \in rooms[resp'.id]
                 /\ new[Len(new)].id = resp'.id
                 /\ new[Len(new)].updatedAt = resp'.body.updatedAt]_vars

\* B joined w1 after an update whose event A's connection still holds: B's
\* connection holds nothing.
C18_Witness ==
    /\ resp.op = "join" /\ resp.c = "B" /\ "B" \in rooms["w1"]
    /\ PersistedUpdates(chan["A"]) # <<>>
    /\ chan["B"] = <<>>

(***************************************************************************)
(* Round trip (checked under SpecUpdate).                                  *)
(***************************************************************************)
\* The step is a create of w1 by A with this document, answered 200.
CreateApplied(d) ==
    /\ resp'.op = "create" /\ resp'.id = "w1" /\ resp'.status = 200
    /\ Create("A", "w1", "n1", d, FALSE)

\* The document a GET of w1 by its owner returns after the step.
DocumentRead ==
    GetReply(workspaces', members', "A", workspaces'["w1"].owner_id,
             "w1").body.diagram

\* No step but a successful update changes the stored document of w1.
DocumentKept ==
    ("w1" \in DOMAIN workspaces /\ ~(resp'.op = "put" /\ resp'.status = 200))
    => /\ "w1" \in DOMAIN workspaces'
       /\ workspaces'["w1"].diagram_json = workspaces["w1"].diagram_json

NextCache ==
    \/ users = <<>> /\ Signup("A", "a@x.com", "pw")
    \/ session["B"] = 0 /\ Login("B", "a@x.com", "pw")
    \/ Logout("B")
    \/ workspaces = <<>> /\ Create("A", "w1", "n1", DocEmpty, FALSE)
    \/ Put("A", "w1", Undefined, DocX)
    \/ \E c \in Clients, id \in WsIds : GetDiagram(c, id)
    \/ \E c \in Clients, id \in WsIds : DeleteDiagram(c, id)
    \/ \E m \in net : Serve(m)
    \/ \E m \in net : OnResponse(m)

SpecCache == Init /\ [][NextCache]_vars

\* The response m to the fetch of a getDiagram call reaches the client.
FetchReturns(m) ==
    /\ m \in net /\ m.kind = "res" /\ m.k.op = "getDiagram"
    /\ resp'.op = "getDiagram"
    /\ OnResponse(m)

\* C20: getDiagram(id) returns a cached entry without a request; on a miss
\* it sends exactly one fetch and, when that succeeds, stores the fetched
\* document (its dates deserialized) under id and returns it; when the
\* fetch fails it returns undefined and leaves the cache as it was.
C20_CacheGet ==
    [][/\ \A c \in Clients, id \in WsIds :
             (Pending(c) = {} /\ GetDiagram(c, id)) =>
                /\ cache' = cache
                /\ IF id \in DOMAIN cache[c]
                   THEN /\ net' = net
                        /\ resp' = Returned(c, id, cache[c][id])
                   ELSE /\ net \subseteq net'
                        /\ Cardinality(net' \ net) = 1
                        /\ \A r \in net' \ net :
                              /\ r.kind = "req" /\ r.op = "get"
                              /\ r.c = c /\ r.id = id
       /\ \A m \in net :
             FetchReturns(m) =>
                /\ net' = net \ {m}
                /\ IF m.reply.status = 200
                   THEN /\ m.id \in DOMAIN cache'[m.c]
                        /\ resp' = Returned(m.c, m.id, cache'[m.c][m.id])
                        /\ cache'[m.c][m.id] =
                              NormalizeDiagramDates(m.reply.body.diagram)
                        /\ ToJson(cache'[m.c][m.id]) = m.reply.body.diagram
                        /\ \A c \in Clients : \A id \in DOMAIN cache[c] :
                              (c # m.c \/ id # m.id) =>
                                 /\ id \in DOMAIN cache'[c]
                                 /\ cache'[c][id] = cache[c][id]
                   ELSE /\ cache' = cache
                        /\ resp' = Returned(m.c, m.id, UndefinedDoc)]_vars

\* A getDiagram call for the missing w2 has just resolved to undefined,
\* the client still holds the w1 an earlier call fetched.
C20_Witness ==
    /\ \E c \in Clients :
          /\ resp = Returned(c, "w2", UndefinedDoc)
          /\ DOMAIN cache[c] = {"w1"}
          /\ ToJson(cache[c]["w1"]) = DocEmpty
    /\ StoredTables(workspaces, "w1") = <<"X">>

(***************************************************************************)
(* SpecApply: persisted-update events reach the storage provider.  A and B *)
(* are two browsers of one user; A fetches and edits w1 locally, both view *)
(* it, and B's session updates the name, the document or both.             *)
(***************************************************************************)
ApplyNames == {Undefined, "n2"}
ApplyDocs == {UndefinedDoc, DocX}

NextApply ==
    \/ users = <<>> /\ Signup("A", "a@x.com", "pw")
    \/ session["B"] = 0 /\ Login("B", "a@x.com", "pw")
    \/ workspaces = <<>> /\ Create("A", "w1", "n1", DocEmpty, FALSE)
    \/ SyncReady /\ "w1" \notin DOMAIN cache["A"] /\ GetDiagram("A", "w1")
    \/ /\ SyncReady /\ "w1" \in DOMAIN cache["A"]
       /\ cache["A"]["w1"].tables = <<>> /\ Pending("A") = {}
       /\ AddTable("A", "w1", "Y")
    \/ \E c \in Clients : SyncReady /\ EnterView(c, "w1")
    \/ \E name \in ApplyNames, d \in ApplyDocs :
          /\ SyncReady /\ Queued(Clients) = 0 /\ net = {}
          /\ Put("B", "w1", name, d)
    \/ \E m \in net : Serve(m)
    \/ \E m \in net : OnResponse(m)
    \/ \E c \in Clients : OnSocketEvent(c)

SpecApply == Init /\ [][NextApply]_vars

\* The listener of client c takes the persisted-update event ev of the
\* diagram it views.
EventTaken(c, ev) ==
    /\ chan[c] # <<>> /\ Head(chan[c]) = ev
    /\ ev.type = "workspace:update" /\ ev.id = view[c]
    /\ OnSocketEvent(c)

\* The fetch that applyServerWorkspaceUpdate awaited on a cache miss
\* returns: m is its response.
ApplyResumes(m) ==
    /\ m \in net /\ m.kind = "res" /\ m.k.op = "apply"
    /\ OnResponse(m)

\* The cache entry of client c for id is the document doc of an event.
CacheHolds(C, c, id, doc) ==
    /\ id \in DOMAIN C[c]
    /\ C[c][id] = NormalizeDiagramDates(doc)
    /\ ToJson(C[c][id]) = doc

\* C21: an event with a full document makes the cache entry that document,
\* whatever was cached; an event with only name and/or updatedAt changes
\* only those fields of an existing entry and leaves its tables alone.
C21_ApplyBroadcast ==
    [][/\ \A c \in Clients :
             (chan[c] # <<>> /\ Head(chan[c]).id \in DOMAIN cache[c]
                 /\ EventTaken(c, Head(chan[c]))) =>
                LET ev == Head(chan[c])
                    old == cache[c][ev.id]
                IN  IF PayloadDiagram(ev).kind = "diagram"
                    THEN CacheHolds(cache', c, ev.id, ev.diagram)
                    ELSE /\ ev.id \in DOMAIN cache'[c]
                         /\ cache'[c][ev.id] =
                               [old EXCEPT
                                  !.name = IF PayloadName(ev) # Undefined
                                           THEN PayloadName(ev) ELSE @,
                                  !.updatedAt =
                                      [kind |-> "Date",
                                       time |-> Instant(ev.updatedAt)]]
                         /\ cache'[c][ev.id].tables = old.tables
       /\ \A m \in net :
             (m.kind = "res" /\ m.k.op = "apply"
                 /\ PayloadDiagram(m.k.ev).kind = "diagram"
                 /\ ApplyResumes(m)) =>
                CacheHolds(cache', m.c, m.id, m.k.ev.diagram)]_vars

\* A's cache held its local table Y until the event with the document
\* with table X replaced the entry.
C21_Witness ==
    /\ "w1" \in DOMAIN cache["A"]
    /\ cache["A"]["w1"].tables = <<"X">>
    /\ StoredTables(workspaces, "w1") = <<"X">>
    /\ \E m \in net : m.kind = "req" /\ m.c = "A" /\ m.op = "put"
                      /\ m.diagram.tables = <<"Y">>
    /\ resp = NoResp /\ chan["A"] = <<>>

\* C22: an event without document for an id the cache has no entry for
\* changes nothing: when applyServerWorkspaceUpdate is done the cache
\* still has no entry for the id and its other entries are as before.
C22_ApplyWithoutEntryNoOp ==
    [][\A m \in net :
          (/\ m.kind = "res" /\ m.k.op = "apply"
           /\ FalsyDoc(PayloadDiagram(m.k.ev))
           /\ m.id \notin DOMAIN cache[m.c]
           /\ ApplyResumes(m))
          => /\ m.id \notin DOMAIN cache'[m.c]
             /\ cache' = cache]_vars

\* B, which never loaded w1, holds an entry for it after a rename-only
\* event: the document the read-through fetch returned, renamed.
C22_Witness ==
    /\ view["B"] = "w1"
    /\ "w1" \in DOMAIN cache["B"]
    /\ cache["B"]["w1"].tables = <<>>
    /\ cache["B"]["w1"].name = "n2"
    /\ net = {}

(***************************************************************************)
(* SpecMutate: table operations of the storage provider.  A signs up,      *)
(* creates w1 with table X, logs out and in, and adds, puts and deletes    *)
(* tables of w1 and of w2, which nobody creates, while time passes.        *)
(***************************************************************************)
PutTables == {"X2", "Y"}

NextMutate ==
    \/ Tick(MaxClockRealtime)
    \/ users = <<>> /\ Signup("A", "a@x.com", "pw")
    \/ workspaces = <<>> /\ Create("A", "w1", "n1", DocX, FALSE)
    \/ Logout("A")
    \/ session["A"] = 0 /\ Login("A", "a@x.com", "pw")
    \/ \E id \in WsIds : Pending("A") = {} /\ AddTable("A", id, "Y")
    \/ \E id \in WsIds, t \in PutTables : PutTable("A", id, t)
    \/ \E id \in WsIds : DeleteTable("A", id, "X")
    \/ \E key \in TableIds : UpdateTable("A", key)
    \/ \E id \in WsIds : Pending("A") = {} /\ UpdateDiagram("A", id, "n2")
    \/ \E m \in net : Serve(m)
    \/ \E m \in net : OnResponse(m)

SpecMutate == Init /\ [][NextMutate]_vars

\* The tables a table operation leaves, from the tables it found.
MutatedTables(op, tables, arg) ==
    CASE op = "addTable" -> Append(tables, arg)
      [] op = "putTable" -> TablesWithPut(tables, arg)
      [] op = "deleteTable" -> WithoutTable(tables, arg)

\* The step writes d with the new tables and the local time into the cache
\* entry and adds to what was in flight one update carrying that entry.
WrittenThenPersisted(c, id, d, tables, inFlight) ==
    /\ id \in DOMAIN cache'[c]
    /\ cache'[c][id] = [d EXCEPT !.tables = tables,
                                 !.updatedAt = [kind |-> "Date",
                                                time |-> now]]
    /\ inFlight \subseteq net'
    /\ Cardinality(net' \ inFlight) = 1
    /\ \A r \in net' \ inFlight :
          /\ r.kind = "req" /\ r.op = "put" /\ r.c = c /\ r.id = id
          /\ r.name = cache'[c][id].name
          /\ r.diagram = ToJson(cache'[c][id])

\* The step of a table operation that does not wait for a fetch: on a hit
\* it writes and persists, on a miss it only sends the fetch.
MutationCalled(c, id, op, arg) ==
    IF id \in DOMAIN cache[c]
    THEN WrittenThenPersisted(c, id, cache[c][id],
             MutatedTables(op, cache[c][id].tables, arg), net)
    ELSE /\ cache' = cache
         /\ net \subseteq net' /\ Cardinality(net' \ net) = 1
         /\ \A r \in net' \ net : r.kind = "req" /\ r.op = "get"
                                  /\ r.c = c /\ r.id = id

MutationOps == {"addTable", "putTable", "deleteTable"}

\* C23: a table add, put or delete obtains the cached or fetched document
\* (rejecting with 'Diagram not found' and changing nothing when there is
\* none), writes the whole changed document with the local time into the
\* cache and then sends one update whose body is that cache entry; every
\* update request carries a whole document.
C23_ReadModifyPersistWhole ==
    [][/\ \A id \in WsIds :
             /\ AddTable("A", id, "Y")
                   => MutationCalled("A", id, "addTable", "Y")
             /\ \A t \in PutTables :
                   PutTable("A", id, t)
                      => MutationCalled("A", id, "putTable", t)
             /\ DeleteTable("A", id, "X")
                   => MutationCalled("A", id, "deleteTable", "X")
       /\ \A m \in net :
             (m.kind = "res" /\ m.op = "get" /\ m.k.op \in MutationOps
                 /\ OnResponse(m)) =>
                IF m.reply.status = 200
                THEN LET d == NormalizeDiagramDates(m.reply.body.diagram)
                     IN  WrittenThenPersisted(m.c, m.id, d,
                            MutatedTables(m.k.op, d.tables, m.k.table),
                            net \ {m})
                ELSE /\ cache' = cache /\ net' = net \ {m}
                     /\ resp' = Threw(m.c, "Diagram not found")
       /\ \A r \in net' :
             (r.kind = "req" /\ r.op = "put") =>
                /\ r.diagram.kind = "diagram"
                /\ DOMAIN r.diagram = DOMAIN DocX
                /\ r.name = r.diagram.name]_vars

\* The update in flight after a put of X2 and an add of Y carries the whole
\* document: name, both tables and the time of the last change.
C23_Witness ==
    /\ "w1" \in DOMAIN cache["A"]
    /\ cache["A"]["w1"].tables = <<"X2", "Y">>
    /\ cache["A"]["w1"].updatedAt.time > 0
    /\ StoredTables(workspaces, "w1") = <<"X2">>
    /\ \E r \in net : /\ r.kind = "req" /\ r.op = "put"
                      /\ r.diagram = ToJson(cache["A"]["w1"])

(***************************************************************************)
(* SpecView: the loader hook's subscription.  A signs up and creates w1    *)
(* and w2; its browser enters, changes and leaves the view while B, a      *)
(* second browser of the same user, renames the workspaces.                *)
(***************************************************************************)
\* A and B hold the owner's session and both workspaces exist.
ViewReady ==
    /\ session = [c \in Clients |-> 1]
    /\ DOMAIN workspaces = WsIds

NextView ==
    \/ users = <<>> /\ Signup("A", "a@x.com", "pw")
    \/ session["B"] = 0 /\ Login("B", "a@x.com", "pw")
    \/ \E id \in WsIds : Create("A", id, "n1", DocEmpty, FALSE)
    \/ \E id \in WsIds : ViewReady /\ EnterView("A", id)
    \/ \E id \in WsIds : ChangeView("A", id)
    \/ ExitView("A")
    \/ \E id \in WsIds :
          /\ ViewReady /\ Queued(Clients) = 0
          /\ Put("B", id, "n2", UndefinedDoc)
    \/ OnSocketEvent("A")
    \/ \E m \in net : Serve(m)
    \/ \E m \in net : OnResponse(m)

SpecView == Init /\ [][NextView]_vars

\* The step changes at most the cache entry of client c for id.
OnlyEntryChanges(c, id) ==
    /\ DOMAIN cache'[c] \subseteq DOMAIN cache[c] \cup {id}
    /\ \A i \in DOMAIN cache[c] \ {id} :
          i \in DOMAIN cache'[c] /\ cache'[c][i] = cache[c][i]

\* C24: a client's connection is joined to the room of the workspace it
\* views and to no other; when the view changes or exits the connection
\* leaves the old room and its events are dropped; and a persisted update
\* is applied to the cache only for the workspace viewed at that moment.
C24_SubscriptionLifecycle ==
    [][\A c \in Clients :
          /\ \A id \in WsIds : c \in rooms'[id] <=> view'[c] = id
          /\ (view[c] # "" /\ view'[c] # view[c])
                => c \notin rooms'[view[c]] /\ chan'[c] = <<>>
          /\ cache'[c] # cache[c]
                => view[c] # "" /\ OnlyEntryChanges(c, view[c])]_vars

\* The browser views w2 while the fetch that an update of w1 started is
\* about to return to applyServerWorkspaceUpdate.
C24_Witness ==
    \E m \in net :
       /\ m.kind = "res" /\ m.k.op = "apply" /\ m.reply.status = 200
       /\ m.id = "w1" /\ view[m.c] = "w2"
       /\ m.id \notin DOMAIN cache[m.c]

\* The room and listener part of C24 alone.
C24_RoomFollowsView ==
    [][\A c \in Clients :
          /\ \A id \in WsIds : c \in rooms'[id] <=> view'[c] = id
          /\ (view[c] # "" /\ view'[c] # view[c])
                => c \notin rooms'[view[c]] /\ chan'[c] = <<>>
          /\ (chan[c] # <<>> /\ Head(chan[c]).id # view[c]
                 /\ OnSocketEvent(c))
                => cache' = cache /\ net' = net]_vars

\* C25: updateTable for a table no cached diagram contains resolves
\* without error, changes no cache entry and sends no request, also when a
\* document on the server that is not cached has the table.
C25_UpdateMissingIsSilent ==
    [][\A key \in TableIds :
          (/\ \A i \in DOMAIN cache["A"] :
                 \A n \in 1..Len(cache["A"][i].tables) :
                    TableKey(cache["A"][i].tables[n]) # key
           /\ UpdateTable("A", key))
          => /\ resp' = Resolved("A", "updateTable")
             /\ cache' = cache
             /\ net' = net]_vars

\* updateTable resolved with nothing cached and nothing sent, while the
\* server's document of w1 has the table X.
C25_Witness ==
    /\ resp = Resolved("A", "updateTable")
    /\ cache["A"] = <<>> /\ net = {}
    /\ session["A"] # 0
    /\ "w1" \in DOMAIN workspaces
    /\ StoredTables(workspaces, "w1") = <<"X">>

(***************************************************************************)
(* Deletion (checked under SpecCache).                                     *)
(***************************************************************************)
\* The document the server stores for workspace id.
StoredDocument(W, id) == JsonParse(W[id].diagram_json)

\* C26: no step removes a workspace or a membership from the server;
\* deleteDiagram(id) removes the client's cache entry for id and nothing
\* else, and sends no request; a later getDiagram(id) of a member misses,
\* fetches, and returns the document the server stores.
C26_DeleteIsLocal ==
    [][/\ DOMAIN workspaces \subseteq DOMAIN workspaces'
       /\ members \subseteq members'
       /\ \A c \in Clients, id \in WsIds :
             (resp'.op = "resolved" /\ DeleteDiagram(c, id)) =>
                /\ id \notin DOMAIN cache'[c]
                /\ OnlyEntryChanges(c, id)
                /\ \A b \in Clients \ {c} : cache'[b] = cache[b]
                /\ net' = net
                /\ workspaces' = workspaces /\ members' = members
       /\ \A m \in net :
             (/\ m.kind = "req" /\ m.op = "get" /\ m.k.op = "getDiagram"
              /\ Authenticated(m.uid) /\ m.id \in DOMAIN workspaces
              /\ HasMembership(members, m.uid, m.id)
              /\ Serve(m))
             => /\ resp'.status = 200
                /\ resp'.body.diagram = StoredDocument(workspaces, m.id)
       /\ \A m \in net :
             (FetchReturns(m) /\ m.reply.status = 200) =>
                ToJson(resp'.value) = m.reply.body.diagram]_vars

\* After deleteDiagram the client holds nothing and nothing is in flight,
\* while the server still has w1, its document and the owner's membership.
C26_Witness ==
    /\ \E c \in Clients : resp = Resolved(c, "deleteDiagram")
                          /\ cache[c] = <<>>
    /\ net = {}
    /\ "w1" \in DOMAIN workspaces
    /\ StoredTables(workspaces, "w1") = <<"X">>
    /\ \E r \in members : r.workspace_id = "w1"

(***************************************************************************)
(* SpecWriter: one editor.  A signs up, creates w1, views it and adds     *)
(* table X and then, without waiting for that call, table Y; its session   *)
(* stays, so every persist is answered 200.                                *)
(***************************************************************************)
\* The tables some call of addTable by client c is still working on.
TablesInHand(c) ==
    {m.k.table : m \in {r \in Pending(c) : r.k.op \in {"addTable",
                                                       "persist"}}}

\* Table t is in the sequence tables.
HasTable(tables, t) == \E n \in 1..Len(tables) : tables[n] = t

\* Table t is in the document the server stores for w1.
Stored(t) ==
    "w1" \in DOMAIN workspaces /\ HasTable(StoredTables(workspaces, "w1"), t)

\* Table t is in the cache entry of A for w1.
Cached(t) ==
    "w1" \in DOMAIN cache["A"] /\ HasTable(cache["A"]["w1"].tables, t)

\* Some table is stored, cached or in hand: X, the first table the editor
\* adds, was added.
AddedX == \E t \in TableIds : t \in TablesInHand("A") \/ Stored(t) \/ Cached(t)

\* Y is stored or cached, so it was added.
AddedY == Stored("Y") \/ Cached("Y")

NextWriter ==
    \/ users = <<>> /\ Signup("A", "a@x.com", "pw")
    \/ workspaces = <<>> /\ Create("A", "w1", "n1", DocEmpty, FALSE)
    \/ workspaces # <<>> /\ EnterView("A", "w1")
    \/ view["A"] = "w1" /\ ~AddedX /\ AddTable("A", "w1", "X")
    \/ /\ view["A"] = "w1" /\ AddedX
       /\ "Y" \notin TablesInHand("A") /\ ~AddedY
       /\ AddTable("A", "w1", "Y")
    \/ \E m \in net : Serve(m)
    \/ \E m \in net : OnResponse(m)
    \/ OnSocketEvent("A")

SpecWriter == Init /\ [][NextWriter]_vars

\* Nothing of w1 is on its way: no request, response or event.
Quiescent == net = {} /\ chan["A"] = <<>>

\* C27: with one editor that views w1 and whose persists all succeed,
\* every table that was added is in the server's document and in the
\* editor's cache entry whenever nothing is in flight.
C27_SingleWriterNoLoss ==
    Quiescent =>
       /\ AddedX => Stored("X") /\ Cached("X")
       /\ AddedY => Stored("Y") /\ Cached("Y")

\* Two addTable calls overlap: the persist of X and the persist of Y are
\* both in flight, each with a document that lacks the other's table.
C27_Witness ==
    /\ view["A"] = "w1"
    /\ \E m1, m2 \in net :
          /\ m1.kind = "req" /\ m1.op = "put" /\ m1.diagram.tables = <<"X">>
          /\ m2.kind = "req" /\ m2.op = "put" /\ m2.diagram.tables = <<"Y">>

(***************************************************************************)
(* SpecConverge: A and B, two browsers of one user, both view w1 before    *)
(* anything is updated; each may load the diagram, A adds table X, and     *)
(* fetches, responses and events are delivered in any order.               *)
(***************************************************************************)
\* Both browsers view w1, so both connections are in its room.
AllViewing == view = [c \in Clients |-> "w1"]

NextConverge ==
    \/ users = <<>> /\ Signup("A", "a@x.com", "pw")
    \/ session["B"] = 0 /\ Login("B", "a@x.com", "pw")
    \/ workspaces = <<>> /\ Create("A", "w1", "n1", DocEmpty, FALSE)
    \/ \E c \in Clients : SyncReady /\ EnterView(c, "w1")
    \/ \E c \in Clients :
          SyncReady /\ "w1" \notin DOMAIN cache[c] /\ GetDiagram(c, "w1")
    \/ /\ AllViewing /\ Pending("A") = {}
       /\ ~HasTable(StoredTables(workspaces, "w1"), "X")
       /\ AddTable("A", "w1", "X")
    \/ \E m \in net : Serve(m)
    \/ \E m \in net : OnResponse(m)
    \/ \E c \in Clients : OnSocketEvent(c)

SpecConverge == Init /\ [][NextConverge]_vars

\* C28: when all viewers joined before the first update and every persist
\* succeeded, then with no request, response or event in flight the cache
\* entry of every viewer is the document the server stores.
C28_Convergence ==
    (/\ AllViewing
     /\ net = {} /\ \A c \in Clients : chan[c] = <<>>
     /\ StoredTables(workspaces, "w1") # <<>>)
    => \A c \in Clients :
          /\ "w1" \in DOMAIN cache[c]
          /\ ToJson(cache[c]["w1"]) = StoredDocument(workspaces, "w1")

\* B holds the updated document while the response to its earlier
\* getDiagram, fetched before the update, is still on its way.
C28_Witness ==
    /\ AllViewing
    /\ "w1" \in DOMAIN cache["B"]
    /\ ToJson(cache["B"]["w1"]) = StoredDocument(workspaces, "w1")
    /\ StoredTables(workspaces, "w1") = <<"X">>
    /\ \E m \in net :
          /\ m.kind = "res" /\ m.c = "B" /\ m.k.op = "getDiagram"
          /\ m.reply.status = 200 /\ m.reply.body.diagram.tables = <<>>

(***************************************************************************)
(* Memberships (checked under SpecUpdate).                                 *)
(***************************************************************************)
\* The users a GET or a PUT of workspace id is answered 200 for.
CanRead(W, M, id) ==
    {uid \in 1..Len(users) : GetReply(W, M, "A", uid, id).status = 200}

CanWrite(W, M, id, t) ==
    {uid \in 1..Len(users) :
        PutReply(W, M, "A", uid, id, UndefinedDoc, t).status = 200}

C30_FailedWriteKept ==
    [][/\ \A r \in net :
             (/\ r.kind = "req" /\ r.op = "put"
              /\ resp'.op = "put" /\ resp'.status # 200
              /\ Serve(r))
             => /\ workspaces' = workspaces
                /\ r.id \in DOMAIN cache'[r.c]
                /\ ToJson(cache'[r.c][r.id]) = r.diagram
                /\ cache'[r.c][r.id].name = r.name
       /\ \A m \in net :
             (/\ m.kind = "res" /\ m.op = "put" /\ m.reply.status # 200
              /\ OnResponse(m))
             => /\ resp' = Threw(m.c, m.reply.body.error)
                /\ cache' = cache
                /\ workspaces' = workspaces]_vars

\* addTable of Y rejected with the 401 of its update: the cache entry has
\* X and Y, the server's document X alone, and nothing is in flight.
C30_Witness ==
    /\ resp = Threw("A", "Unauthorized")
    /\ "w1" \in DOMAIN cache["A"]
    /\ cache["A"]["w1"].tables = <<"X", "Y">>
    /\ StoredTables(workspaces, "w1") = <<"X">>
    /\ net = {}

(***************************************************************************)
(* SpecAdd: addDiagram.  A and B sign up; A may create w1 and B w2 through *)
(* the API; A logs out and in and calls addDiagram with diagrams of id w1  *)
(* and w2, one without a name, one call at a time.                         *)
(***************************************************************************)
AddDiagrams ==
    {Diagram("w1", "n1", <<"X">>, 0, 0), Diagram("w1", "", <<"Y">>, 0, 0),
     Diagram("w2", "n1", <<"X">>, 0, 0)}

NextAdd ==
    \/ users = <<>> /\ Signup("A", "a@x.com", "pw")
    \/ Len(users) = 1 /\ Signup("B", "b@x.com", "pw")
    \/ Create("A", "w1", "n1", DocEmpty, FALSE)
    \/ Create("B", "w2", "n1", DocEmpty, FALSE)
    \/ Logout("A")
    \/ session["A"] = 0 /\ Login("A", "a@x.com", "pw")
    \/ \E d \in AddDiagrams : Pending("A") = {} /\ AddDiagram("A", d)
    \/ \E m \in net : Serve(m)
    \/ \E m \in net : OnResponse(m)

SpecAdd == Init /\ [][NextAdd]_vars

\* The step adds to inFlight exactly one request of client c, with this
\* operation, for diagram d.
OneRequestSent(c, op, d, inFlight) ==
    /\ inFlight \subseteq net'
    /\ Cardinality(net' \ inFlight) = 1
    /\ \A r \in net' \ inFlight :
          /\ r.kind = "req" /\ r.op = op /\ r.c = c
          /\ r.id = d.id /\ r.name = d.name /\ r.diagram = ToJson(d)

\* C31: addDiagram caches d and then sends the create; when the create
\* fails for whatever reason it sends the update instead and the caller
\* sees no error yet; when addDiagram resolves the server's document of
\* d.id is d; it rejects only with the error of the failed update.
C31_AddDiagramCreateOrOverwrite ==
    [][/\ \A d \in AddDiagrams :
             AddDiagram("A", d) =>
                /\ d.id \in DOMAIN cache'["A"]
                /\ cache'["A"][d.id] = d
                /\ OneRequestSent("A", "create", d, net)
       /\ \A m \in net :
             (m.kind = "res" /\ m.k.op = "addDiagram" /\ OnResponse(m)) =>
                /\ cache' = cache
                /\ (m.op = "create" /\ m.reply.status # 200)
                      => /\ OneRequestSent(m.c, "put", m.k.d, net \ {m})
                         /\ resp' = NoResp
                /\ (m.op = "put" \/ m.reply.status = 200)
                      => net' = net \ {m}
                /\ resp' = Resolved(m.c, "addDiagram")
                      <=> m.reply.status = 200
                /\ resp' = Resolved(m.c, "addDiagram")
                      => /\ m.id \in DOMAIN workspaces'
                         /\ StoredDocument(workspaces', m.id) = ToJson(m.k.d)
                /\ resp'.op = "threw"
                      <=> (m.op = "put" /\ m.reply.status # 200)
                /\ resp'.op = "threw"
                      => resp' = Threw(m.c, m.reply.body.error)]_vars

\* The create of an addDiagram for w1 was refused, as A had w1 already,
\* and the update sent instead was answered 200: the server's document of
\* w1 is the diagram of the call.
C31_Witness ==
    \E m \in net :
       /\ m.kind = "res" /\ m.op = "put" /\ m.k.op = "addDiagram"
       /\ m.reply.status = 200 /\ m.id = "w1"
       /\ StoredDocument(workspaces, "w1") = ToJson(m.k.d)
       /\ StoredTables(workspaces, "w1") = <<"X">>
====
